---------------------------- MODULE Spec2Model ----------------------------
(***************************************************************************)
(* CloudExport: the credit ledger (cloudexport/credits.py), the job        *)
(* controller (backend/app/main.py), the queue and progress bus            *)
(* (cloudexport/queue.py) and the worker loop (worker/worker.py).          *)
(*                                                                         *)
(* Money is counted in whole units (the code uses float USD); every        *)
(* amount of the model is an integer.                                      *)
(***************************************************************************)
EXTENDS Integers, Sequences, FiniteSets, TLC

VARIABLES
    ledger,     \* credit_ledger table: sequence of rows, in insertion order
    call,       \* the last ledger call made through the API, with the caller's balances before it
    before,     \* the ledger call preceding `call`, kept when it inserted a reservation
    rq,         \* in-flight reserve_credits calls, one per request task
    settings,   \* the configuration object, read-only after startup
    users,      \* users table: the ids (emails) of the existing users
    resp,       \* the request the controller handled in the last step, with its response
    jobs,       \* jobs table: sequence of rows, a job's id is its index
    events,     \* job_events table: per job, the event type of its last JobEvent row
    channel,    \* progress bus: per job, the last message published on job:{id}
    runs,       \* per job, how many times a worker has started process_job on its id
    queue,      \* work queues: per GPU class, the list queue:{gpuClass} (head first)
    cache,      \* cache_entries table: sequence of rows
    usage,      \* usage table: sequence of rows (one month)
    wk          \* per worker process: where it is in main/process_job and the job id it holds

ledgerVars == <<ledger, call, before>>
jobVars == <<jobs, events, channel, runs, queue, cache, usage, wk>>
vars == <<ledger, call, before, rq, settings, users, resp, jobs, events, channel, runs, queue, cache, usage, wk>>

(***************************************************************************)
(* Bounds and input sets                                                   *)
(***************************************************************************)
MaxEntries == 4

Users == {"u1", "u2"}
LedgerJobs == {1, 2}
ExtIds == {"e1", "e2"}
PurchaseAmounts == {2, 3}
ReserveAmounts == {0, 1, 2}
ActualCosts == {0, 1, 2, 3}

GpuClasses == {"rtx4090"}

NoJob == 0
NoExt == "none"
NoUser == "none"
NoKey == "none"

NoResp == [op |-> "none", code |-> 0, detail |-> "", user |-> NoUser, job |-> NoJob,
           ext |-> NoExt, manifest_hash |-> NoKey, preset |-> NoKey, allowCache |-> FALSE]

(***************************************************************************)
(* CreditLedger rows and the table's unique constraints                    *)
(***************************************************************************)
\* details is the JSON column: its reason (or source), and its shortfall when it has one
CreditLedger(u, j, type, status, amount, ext, details) ==
    [user_id |-> u, job_id |-> j, entry_type |-> type, status |-> status,
     amount_usd |-> amount, external_id |-> ext, details |-> details, shortfall |-> 0]

UniqueViolation_job_only(L, e) ==
    /\ e.job_id # NoJob
    /\ \E i \in 1..Len(L) : L[i].job_id = e.job_id /\ L[i].entry_type = e.entry_type

\* uq_credit_ledger_external_id and uq_credit_ledger_job_entry (NULLs never collide)
UniqueViolation(L, e) ==
    \/ /\ e.external_id # NoExt
       /\ \E i \in 1..Len(L) : L[i].external_id = e.external_id
    \/ /\ e.job_id # NoJob
       /\ \E i \in 1..Len(L) : L[i].job_id = e.job_id /\ L[i].entry_type = e.entry_type

RECURSIVE SumWhere(_, _, _)
SumWhere(L, u, status) ==
    IF L = <<>> THEN 0
    ELSE (IF Head(L).user_id = u /\ Head(L).status = status THEN Head(L).amount_usd ELSE 0)
         + SumWhere(Tail(L), u, status)

get_balances(L, u) ==
    LET posted == SumWhere(L, u, "posted")
        reserved == SumWhere(L, u, "reserved")
    IN  [posted_usd |-> posted, reserved_usd |-> reserved, available_usd |-> posted + reserved]

Max(a, b) == IF a >= b THEN a ELSE b
Min_unclamped(a, b) == a
Min(a, b) == IF a <= b THEN a ELSE b
Abs(a) == IF a < 0 THEN -a ELSE a

\* rows a query .filter(job_id == j, entry_type == 'RESERVE') returns
ReserveRows(L, j) == {i \in 1..Len(L) : L[i].job_id = j /\ L[i].entry_type = "RESERVE"}

(***************************************************************************)
(* reserve_credits: the result is the new table and how the call ended     *)
(***************************************************************************)
reserve_insert(L, u, j, amount, available) ==
    LET entry == CreditLedger(u, j, "RESERVE", "reserved", -amount, NoExt, "")
    IN  IF available < amount THEN [ledger |-> L, outcome |-> "insufficient"]
        ELSE IF UniqueViolation(L, entry) THEN [ledger |-> L, outcome |-> "integrity_error"]
        ELSE [ledger |-> Append(L, entry), outcome |-> "reserved"]

reserve_credits_unguarded(L, u, j, amount) ==
    IF amount <= 0 THEN [ledger |-> L, outcome |-> "bad_amount"]
    ELSE IF get_balances(L, u).available_usd < amount THEN [ledger |-> L, outcome |-> "insufficient"]
    ELSE [ledger |-> Append(L, CreditLedger(u, j, "RESERVE", "reserved", -amount, NoExt, "")),
          outcome |-> "reserved"]

reserve_credits_granted(L, u, j, amount) == [ledger |-> L, outcome |-> "reserved"]

reserve_credits(L, u, j, amount) ==
    IF amount <= 0 THEN [ledger |-> L, outcome |-> "bad_amount"]
    ELSE IF \E i \in ReserveRows(L, j) : L[i].user_id = u
         THEN [ledger |-> L, outcome |-> "existing"]
    ELSE reserve_insert(L, u, j, amount, get_balances(L, u).available_usd)

(***************************************************************************)
(* settle_job_credits, void_reservation, credit_purchase                   *)
(***************************************************************************)
settle_job_credits_plain(L, j, actual_cost_usd) ==
    IF ReserveRows(L, j) = {} THEN L
    ELSE LET i == CHOOSE x \in ReserveRows(L, j) : TRUE
         IN  IF L[i].status # "reserved" THEN L
             ELSE [L EXCEPT ![i].status = "posted", ![i].amount_usd = -Max(0, actual_cost_usd)]

settle_job_credits(L, j, actual_cost_usd) ==
    IF ReserveRows(L, j) = {} THEN L
    ELSE LET i == CHOOSE x \in ReserveRows(L, j) : TRUE
             entry == L[i]
         IN  IF entry.status # "reserved" THEN L
             ELSE LET reserved == Abs(entry.amount_usd)
                      balances == get_balances(L, entry.user_id)
                      max_charge == Max(0, balances.available_usd + reserved)
                      actual_cost == Max(0, Min(actual_cost_usd, max_charge))
                      posted == [entry EXCEPT !.status = "posted",
                                              !.amount_usd = -actual_cost,
                                              !.details = IF actual_cost_usd > max_charge
                                                          THEN "insufficient_funds" ELSE @,
                                              !.shortfall = IF actual_cost_usd > max_charge
                                                            THEN actual_cost_usd - max_charge ELSE @]
                      L1 == [L EXCEPT ![i] = posted]
                 IN  IF actual_cost < reserved
                     THEN Append(L1, CreditLedger(entry.user_id, j, "REFUND", "posted",
                                                  reserved - actual_cost, NoExt, "unused_reservation"))
                     ELSE IF actual_cost > reserved
                     THEN Append(L1, CreditLedger(entry.user_id, j, "SETTLEMENT", "posted",
                                                  -(actual_cost - reserved), NoExt, "overage"))
                     ELSE L1

void_reservation_any(L, j, reason) ==
    IF ReserveRows(L, j) = {} THEN L
    ELSE LET i == CHOOSE x \in ReserveRows(L, j) : TRUE
         IN  [L EXCEPT ![i].status = "voided", ![i].details = reason]

void_reservation_posts(L, j, reason) ==
    IF ReserveRows(L, j) = {} THEN L
    ELSE LET i == CHOOSE x \in ReserveRows(L, j) : TRUE
         IN  IF L[i].status # "reserved" THEN L
             ELSE [L EXCEPT ![i].status = "posted", ![i].details = reason]

void_reservation(L, j, reason) ==
    IF ReserveRows(L, j) = {} THEN L
    ELSE LET i == CHOOSE x \in ReserveRows(L, j) : TRUE
         IN  IF L[i].status # "reserved" THEN L
             ELSE [L EXCEPT ![i].status = "voided", ![i].details = reason]

credit_purchase(L, u, amount, ext, source) ==
    IF ext # NoExt /\ \E i \in 1..Len(L) : L[i].external_id = ext THEN L
    ELSE Append(L, CreditLedger(u, NoJob, "PURCHASE", "posted", amount, ext, source))

(***************************************************************************)
(* The ledger API called in any order                                      *)
(***************************************************************************)
NoCall == [op |-> "none", user |-> "u1", job |-> NoJob, amount |-> 0,
           posted |-> 0, reserved |-> 0, outcome |-> "none"]

\* the record of a call; a reserve call also records the caller's balances before it
Called(op, u, j, amount, outcome) ==
    LET b == get_balances(ledger, u)
    IN  [op |-> op, user |-> u, job |-> j, amount |-> amount,
         posted |-> IF op = "reserve" THEN b.posted_usd ELSE 0,
         reserved |-> IF op = "reserve" THEN b.reserved_usd ELSE 0,
         outcome |-> outcome]

\* `before` keeps the preceding call when that call inserted a reservation
Shift == IF call.op = "reserve" /\ call.outcome = "reserved" THEN call ELSE NoCall

\* the tables and processes a specification does not use stay as they are after startup
Unused ==
    /\ rq = <<>>
    /\ settings = [lemon_webhook_secret |-> FALSE, lemon_auto_create_users |-> FALSE]
    /\ users = Users
    /\ resp = NoResp
    /\ jobs = <<>> /\ events = <<>> /\ channel = <<>> /\ runs = <<>>
    /\ queue = [g \in GpuClasses |-> <<>>]
    /\ cache = <<>> /\ usage = <<>>
    /\ wk = <<>>

LedgerInit ==
    /\ ledger = <<>>
    /\ call = NoCall
    /\ before = NoCall
    /\ Unused

Purchase(u, amount) ==
    /\ Len(ledger) < MaxEntries
    /\ ledger' = credit_purchase(ledger, u, amount, NoExt, "lemon")
    /\ before' = Shift
    /\ call' = Called("purchase", u, NoJob, amount, "posted")
    /\ UNCHANGED <<rq, settings, users, resp, jobVars>>

Reserve(u, j, amount) ==
    LET r == reserve_credits(ledger, u, j, amount)
    IN  /\ Len(ledger) < MaxEntries
        /\ ledger' = r.ledger
        /\ before' = Shift
        /\ call' = Called("reserve", u, j, amount, r.outcome)
        /\ UNCHANGED <<rq, settings, users, resp, jobVars>>

\* the user of the job's RESERVE row, when there is one
Reserver(L, j) ==
    IF ReserveRows(L, j) = {} THEN NoUser ELSE L[CHOOSE x \in ReserveRows(L, j) : TRUE].user_id

Settle(j, cost) ==
    /\ Len(ledger) < MaxEntries
    /\ ledger' = settle_job_credits(ledger, j, cost)
    /\ before' = Shift
    /\ call' = Called("settle", Reserver(ledger, j), j, cost,
                      IF ledger' = ledger THEN "noop" ELSE "settled")
    /\ UNCHANGED <<rq, settings, users, resp, jobVars>>

Void(j) ==
    /\ ledger' = void_reservation(ledger, j, "cancelled")
    /\ before' = Shift
    /\ call' = Called("void", Reserver(ledger, j), j, 0,
                      IF ledger' = ledger THEN "noop" ELSE "voided")
    /\ UNCHANGED <<rq, settings, users, resp, jobVars>>

LedgerNext ==
    \/ \E u \in Users, a \in PurchaseAmounts : Purchase(u, a)
    \/ \E u \in Users, j \in LedgerJobs, a \in ReserveAmounts : Reserve(u, j, a)
    \/ \E j \in LedgerJobs, c \in ActualCosts : Settle(j, c)
    \/ \E j \in LedgerJobs : Void(j)

SpecLedger == LedgerInit /\ [][LedgerNext]_vars

(***************************************************************************)
(* C1: reserve(user, job, A) directly followed by settle(job, c) with      *)
(* 0 <= c <= A leaves the user's posted balance exactly c lower than it    *)
(* was before the reserve, and the reserved total where it was.            *)
(***************************************************************************)
C1_ReserveThenSettle ==
    (/\ call.op = "settle"
     /\ before.op = "reserve" /\ before.outcome = "reserved"
     /\ before.job = call.job
     /\ call.amount <= before.amount)
    => LET b == get_balances(ledger, before.user)
       IN  /\ b.posted_usd = before.posted - call.amount
           /\ b.reserved_usd = before.reserved

(***************************************************************************)
(* C3: after any sequence of purchase, reserve, settle and void,           *)
(* available = posted + reserved is >= 0 for every user, unless a          *)
(* settlement recorded insufficient_funds on that user's ledger.           *)
(***************************************************************************)
C3_AvailableNonNegative ==
    \A u \in Users :
        \/ get_balances(ledger, u).available_usd >= 0
        \/ \E i \in 1..Len(ledger) :
              ledger[i].user_id = u /\ ledger[i].details = "insufficient_funds"

(***************************************************************************)
(* C4: the ledger holds at most one RESERVE row per job id, and a reserve  *)
(* call for a job that already has a RESERVE row adds no row and leaves    *)
(* every balance unchanged.                                                *)
(***************************************************************************)
C4_OneReservePerJob ==
    /\ [](\A j \in LedgerJobs : Cardinality(ReserveRows(ledger, j)) <= 1)
    /\ [][(call'.op = "reserve" /\ ReserveRows(ledger, call'.job) # {}) => ledger' = ledger]_vars

C4_Witness ==
    /\ call.op = "reserve" /\ call.outcome = "existing"
    /\ \E j \in LedgerJobs : j # call.job /\ ReserveRows(ledger, j) # {}

(***************************************************************************)
(* Concurrent reserve_credits calls: each request task runs the existence  *)
(* query, the balance read and the check-and-insert as separate steps; no  *)
(* row lock is taken between them.                                         *)
(***************************************************************************)
Requests == {"r1", "r2"}
RequestJob(r) == IF r = "r1" THEN 1 ELSE 2

IdleRequest == [pc |-> "idle", user |-> "u1", amount |-> 0, available |-> 0]

RaceInit ==
    /\ ledger = <<>>
    /\ call = NoCall
    /\ before = NoCall
    /\ rq = [r \in Requests |-> IdleRequest]
    /\ settings = [lemon_webhook_secret |-> FALSE, lemon_auto_create_users |-> FALSE]
    /\ users = Users
    /\ resp = NoResp
    /\ jobs = <<>> /\ events = <<>> /\ channel = <<>> /\ runs = <<>>
    /\ queue = [g \in GpuClasses |-> <<>>]
    /\ cache = <<>> /\ usage = <<>>
    /\ wk = <<>>

RacePurchase(u, amount) ==
    /\ Len(ledger) < MaxEntries
    /\ ledger' = credit_purchase(ledger, u, amount, NoExt, "lemon")
    /\ UNCHANGED <<call, before, rq, settings, users, resp, jobVars>>

\* credits.py 33-43: the amount check and the query for an existing RESERVE row
ReserveBegin(r, u, amount) ==
    /\ rq[r].pc = "idle"
    /\ rq' = [rq EXCEPT ![r] =
                 IF amount <= 0 \/ (\E i \in ReserveRows(ledger, RequestJob(r)) : ledger[i].user_id = u)
                 THEN [pc |-> "done", user |-> u, amount |-> amount, available |-> 0]
                 ELSE [pc |-> "read", user |-> u, amount |-> amount, available |-> 0]]
    /\ UNCHANGED <<ledgerVars, settings, users, resp, jobVars>>

\* credits.py 45: balances = get_balances(db, user_id)
ReserveRead(r) ==
    /\ rq[r].pc = "read"
    /\ rq' = [rq EXCEPT ![r].pc = "insert",
                        ![r].available = get_balances(ledger, rq[r].user).available_usd]
    /\ UNCHANGED <<ledgerVars, settings, users, resp, jobVars>>

\* credits.py 46-58: the check against the balance read earlier, the insert and the commit
ReserveInsert(r) ==
    /\ rq[r].pc = "insert"
    /\ ledger' = reserve_insert(ledger, rq[r].user, RequestJob(r), rq[r].amount, rq[r].available).ledger
    /\ rq' = [rq EXCEPT ![r].pc = "done", ![r].available = 0]
    /\ UNCHANGED <<call, before, settings, users, resp, jobVars>>

RaceNext ==
    \/ \E u \in Users, a \in PurchaseAmounts : RacePurchase(u, a)
    \/ \E r \in Requests, u \in Users, a \in ReserveAmounts : ReserveBegin(r, u, a)
    \/ \E r \in Requests : ReserveRead(r)
    \/ \E r \in Requests : ReserveInsert(r)

SpecReserveRace == RaceInit /\ [][RaceNext]_vars

(***************************************************************************)
(* C2: with concurrent reserve calls for one user, the sum of the amounts  *)
(* of that user's RESERVE rows in status reserved never exceeds the        *)
(* user's posted balance.                                                  *)
(***************************************************************************)
C2_NoOversell ==
    \A u \in Users :
        -get_balances(ledger, u).reserved_usd <= get_balances(ledger, u).posted_usd

(***************************************************************************)
(* Webhook ingest: lemon_webhook, one delivery handled start to end        *)
(***************************************************************************)
BadAmount == -1
Events == {"order_created", "subscription_updated"}
Payloads ==
    [signature_ok : BOOLEAN, event : Events, id : ExtIds \cup {NoExt},
     email : Users \cup {NoUser}, amount : PurchaseAmounts \cup {BadAmount}]

\* rows a query .filter(external_id == ext) returns
ExtRows(L, ext) == {i \in 1..Len(L) : L[i].external_id = ext}
PurchaseRows(L, ext) == {i \in ExtRows(L, ext) : L[i].entry_type = "PURCHASE"}

Answer(L, U, code, detail) == [ledger |-> L, users |-> U, code |-> code, detail |-> detail]

lemon_webhook_no_lookup(L, U, S, p) ==
    IF ~S.lemon_webhook_secret THEN Answer(L, U, 500, "Webhook not configured")
    ELSE IF ~p.signature_ok THEN Answer(L, U, 401, "Invalid signature")
    ELSE IF p.event \notin {"order_created", "subscription_payment_success"}
         THEN Answer(L, U, 200, "ignored")
    ELSE IF p.email = NoUser \/ p.id = NoExt THEN Answer(L, U, 400, "Missing email or id")
    ELSE IF p.amount = BadAmount THEN Answer(L, U, 400, "Unsupported currency")
    ELSE IF p.email \notin U /\ ~S.lemon_auto_create_users THEN Answer(L, U, 404, "User not found")
    ELSE Answer(Append(L, CreditLedger(p.email, NoJob, "PURCHASE", "posted", p.amount, p.id, "lemon")),
                U \cup {p.email}, 200, "ok")

lemon_webhook_unsigned(L, U, S, p) ==
    IF ~S.lemon_webhook_secret THEN Answer(L, U, 500, "Webhook not configured")
    ELSE IF p.event \notin {"order_created", "subscription_payment_success"}
         THEN Answer(L, U, 200, "ignored")
    ELSE IF p.email = NoUser \/ p.id = NoExt THEN Answer(L, U, 400, "Missing email or id")
    ELSE IF ExtRows(L, p.id) # {} THEN Answer(L, U, 200, "existing")
    ELSE IF p.amount = BadAmount THEN Answer(L, U, 400, "Unsupported currency")
    ELSE IF p.email \notin U /\ ~S.lemon_auto_create_users THEN Answer(L, U, 404, "User not found")
    ELSE Answer(credit_purchase(L, p.email, p.amount, p.id, "lemon"), U \cup {p.email}, 200, "ok")

lemon_webhook(L, U, S, p) ==
    IF ~S.lemon_webhook_secret THEN Answer(L, U, 500, "Webhook not configured")
    ELSE IF ~p.signature_ok THEN Answer(L, U, 401, "Invalid signature")
    ELSE IF p.event \notin {"order_created", "subscription_payment_success"}
         THEN Answer(L, U, 200, "ignored")
    ELSE IF p.email = NoUser \/ p.id = NoExt THEN Answer(L, U, 400, "Missing email or id")
    ELSE IF ExtRows(L, p.id) # {} THEN Answer(L, U, 200, "existing")
    ELSE IF p.amount = BadAmount THEN Answer(L, U, 400, "Unsupported currency")
    ELSE IF p.email \notin U /\ ~S.lemon_auto_create_users THEN Answer(L, U, 404, "User not found")
    ELSE Answer(credit_purchase(L, p.email, p.amount, p.id, "lemon"), U \cup {p.email}, 200, "ok")

WebhookInit ==
    /\ ledger = <<>>
    /\ call = NoCall
    /\ before = NoCall
    /\ rq = <<>>
    /\ settings \in [lemon_webhook_secret : BOOLEAN, lemon_auto_create_users : BOOLEAN]
    /\ users = {"u1"}
    /\ resp = NoResp
    /\ jobs = <<>> /\ events = <<>> /\ channel = <<>> /\ runs = <<>>
    /\ queue = [g \in GpuClasses |-> <<>>]
    /\ cache = <<>> /\ usage = <<>>
    /\ wk = <<>>

Deliver(p) ==
    LET r == lemon_webhook(ledger, users, settings, p)
    IN  /\ ledger' = r.ledger
        /\ users' = r.users
        /\ resp' = [NoResp EXCEPT !.op = "webhook", !.code = r.code, !.detail = r.detail,
                                  !.user = p.email, !.ext = p.id]
        /\ UNCHANGED <<call, before, rq, settings, jobVars>>

WebhookNext == \E p \in Payloads : Deliver(p)

SpecWebhook == WebhookInit /\ [][WebhookNext]_vars

(***************************************************************************)
(* C5: however many times a signed payload with one external id is         *)
(* delivered, the ledger holds at most one PURCHASE row with that id, and  *)
(* the posted balance rises at the first accepted delivery only: a         *)
(* delivery whose id the ledger already holds changes no row.              *)
(***************************************************************************)
C5_IdempotentPurchase ==
    /\ [](\A e \in ExtIds : Cardinality(PurchaseRows(ledger, e)) <= 1)
    /\ [][\A e \in ExtIds :
            (resp'.op = "webhook" /\ resp'.ext = e /\ ExtRows(ledger, e) # {})
            => /\ ledger' = ledger
               /\ \A u \in Users : get_balances(ledger', u).posted_usd = get_balances(ledger, u).posted_usd]_vars

C5_Witness ==
    /\ resp.op = "webhook" /\ resp.code = 200 /\ resp.detail = "existing"
    /\ Cardinality(PurchaseRows(ledger, resp.ext)) = 1
    /\ get_balances(ledger, resp.user).posted_usd > 0

(***************************************************************************)
(* Jobs: rows, the progress table of the worker, update_job                *)
(***************************************************************************)
MaxJobs == 2
MaxLines == 1
InitialCredit == 3
max_attempts == 3
min_job_cost_usd == 1
per_job_max_usd == 50
monthly_limit_usd == 200

Workers == {"w1"}
WorkerGpu(w) == "rtx4090"
Creators == {"u1"}
Manifests == {"m1"}
Presets == {"web"}
Minutes == {1, 2, 3}
Percents == {0, 100}
Terminal == {"COMPLETED", "FAILED", "CANCELLED"}

\* notificationEmail is read once per job, at worker.py 234: CacheInsert draws it there
Submissions ==
    [manifest : Manifests, manifestHash : {"h1"}, preset : Presets, allowCache : BOOLEAN]
        \cup {[manifest |-> "m1", manifestHash |-> "hX", preset |-> "web", allowCache |-> FALSE]}

\* utils.hash_manifest: the fingerprint of a manifest's canonical JSON
hash_manifest(m) == CASE m = "m1" -> "h1" [] m = "m2" -> "h2" [] OTHER -> "h3"
\* pricing.estimate_cost, pricing.choose_gpu_class: fixed by manifest and preset; the
\* manifests differ in composition length, m2 and m3 are priced around the per-job cap
estimate_cost(m, preset) ==
    Max(min_job_cost_usd, CASE m = "m1" -> 2 [] m = "m2" -> 50 [] OTHER -> 51)
choose_gpu_class(m, preset) == "rtx4090"
\* pricing.compute_actual_cost: grows with the billed minutes, never below the minimum job cost
compute_actual_cost(m, preset, minutes) == Max(min_job_cost_usd, minutes)

STATUS_PROGRESS ==
    [s \in {"DOWNLOADING", "VALIDATING", "RENDERING", "PACKAGING", "UPLOADING",
            "COMPLETED", "FAILED", "CANCELLED"} |->
        CASE s = "DOWNLOADING" -> 10
          [] s = "VALIDATING" -> 20
          [] s = "RENDERING" -> 60
          [] s = "PACKAGING" -> 85
          [] s = "UPLOADING" -> 92
          [] s = "COMPLETED" -> 100
          [] s = "FAILED" -> 0
          [] s = "CANCELLED" -> 0]

Job(u, status, sub, cost) ==
    [user_id |-> u, status |-> status, preset |-> sub.preset,
     manifest_hash |-> hash_manifest(sub.manifest),
     gpu_class |-> choose_gpu_class(sub.manifest, sub.preset),
     result_key |-> NoJob,
     cost_estimate_usd |-> cost, cost_final_usd |-> 0, progress_percent |-> 0,
     attempts |-> 0, error_message |-> "", cancel_requested |-> FALSE, cache_hit |-> FALSE,
     started_at |-> FALSE, finished_at |-> FALSE]

Message(row) == [status |-> row.status, progress |-> row.progress_percent]
NoMessage == [status |-> "", progress |-> 0]

\* update_job's change of the row; progress -1 stands for None, error "" for None
update_job(row, status, progress, error) ==
    [row EXCEPT !.status = status,
                !.progress_percent =
                    IF progress # -1 THEN progress
                    ELSE IF status \in DOMAIN STATUS_PROGRESS THEN STATUS_PROGRESS[status]
                    ELSE @,
                !.started_at = IF status = "RENDERING" THEN TRUE ELSE @,
                !.finished_at = IF status \in {"COMPLETED", "FAILED", "CANCELLED"} THEN TRUE ELSE @,
                !.error_message = IF error # "" THEN error ELSE @]

\* update_job's commit of the row with its JobEvent, and the publish on the job's channel
Updated(j, row) ==
    /\ jobs' = [jobs EXCEPT ![j] = row]
    /\ events' = [events EXCEPT ![j] = row.status]
    /\ channel' = [channel EXCEPT ![j] = Message(row)]

\* queue.py: lpush at the head, brpop from the tail, lrem of every occurrence
enqueue_job_twice(Q, j, g) == [Q EXCEPT ![g] = <<j, j>> \o @]
enqueue_job_at_tail(Q, j, g) == [Q EXCEPT ![g] = @ \o <<j>>]
enqueue_job(Q, j, g) == [Q EXCEPT ![g] = <<j>> \o @]
RECURSIVE Without(_, _)
Without(q, j) ==
    IF q = <<>> THEN <<>>
    ELSE IF Head(q) = j THEN Without(Tail(q), j) ELSE <<Head(q)>> \o Without(Tail(q), j)
remove_job_keeps(Q, j, g) == Q
remove_job(Q, j, g) == [Q EXCEPT ![g] = Without(@, j)]

CacheRows(C, hash, preset) ==
    {i \in 1..Len(C) : C[i].manifest_hash = hash /\ C[i].preset = preset}

update_usage(U, row, minutes) ==
    IF \E i \in 1..Len(U) : U[i].user_id = row.user_id
    THEN LET i == CHOOSE x \in 1..Len(U) : U[x].user_id = row.user_id
         IN  [U EXCEPT ![i].cost_usd = @ + row.cost_final_usd, ![i].minutes = @ + minutes]
    ELSE Append(U, [user_id |-> row.user_id, cost_usd |-> row.cost_final_usd, minutes |-> minutes])

(***************************************************************************)
(* Job controller: create_job and cancel_job, each handled start to end    *)
(***************************************************************************)
Idle == [pc |-> "idle", job |-> NoJob, lines |-> 0, minutes |-> 0]

JobsInit ==
    /\ ledger = <<CreditLedger("u1", NoJob, "PURCHASE", "posted", InitialCredit, NoExt, "lemon")>>
    /\ call = NoCall
    /\ before = NoCall
    /\ rq = <<>>
    /\ settings = [lemon_webhook_secret |-> FALSE, lemon_auto_create_users |-> FALSE]
    /\ users = Users
    /\ resp = NoResp
    /\ jobs = <<>> /\ events = <<>> /\ channel = <<>> /\ runs = <<>>
    /\ queue = [g \in GpuClasses |-> <<>>]
    /\ cache = <<>> /\ usage = <<>>
    /\ wk = [w \in Workers |-> Idle]

Request(op, code, detail, u, j, sub) ==
    [NoResp EXCEPT !.op = op, !.code = code, !.detail = detail, !.user = u, !.job = j,
                   !.manifest_hash = sub.manifestHash, !.preset = sub.preset,
                   !.allowCache = sub.allowCache]

ensure_usage_limit_off(U, u, cost) == ""

\* main.py 149-156: the per-job cap and the monthly cap
ensure_usage_limit(U, u, cost) ==
    LET rows == {i \in 1..Len(U) : U[i].user_id = u}
        total_cost == IF rows = {} THEN 0 ELSE U[CHOOSE i \in rows : TRUE].cost_usd
    IN  IF cost > per_job_max_usd THEN "Job exceeds per-job max spend."
        ELSE IF total_cost + cost > monthly_limit_usd THEN "Monthly usage limit exceeded."
        ELSE ""

\* main.py 161-175: what create_job rejects before it looks at the cache ("" when nothing)
create_rejection(U, u, sub) ==
    IF hash_manifest(sub.manifest) # sub.manifestHash THEN "Manifest hash mismatch."
    ELSE ensure_usage_limit(U, u, estimate_cost(sub.manifest, sub.preset))

CreateRejected(u, sub) ==
    /\ create_rejection(usage, u, sub) # ""
    /\ resp' = Request("create", 400, create_rejection(usage, u, sub), u, NoJob, sub)
    /\ UNCHANGED <<ledgerVars, rq, settings, users, jobVars>>

\* main.py 177-181: one_or_none() on a lookup matching several rows raises MultipleResultsFound
CreateLookupFails(u, sub) ==
    /\ create_rejection(usage, u, sub) = ""
    /\ sub.allowCache
    /\ Cardinality(CacheRows(cache, sub.manifestHash, sub.preset)) > 1
    /\ resp' = Request("create", 500, "MultipleResultsFound", u, NoJob, sub)
    /\ UNCHANGED <<ledgerVars, rq, settings, users, jobVars>>

\* main.py 182-225: the cache hit
CreateCacheHit(u, sub) ==
    LET hits == CacheRows(cache, sub.manifestHash, sub.preset)
        hit == cache[CHOOSE i \in hits : TRUE]
        cost == estimate_cost(sub.manifest, sub.preset)
        j == Len(jobs) + 1
        row == [Job(u, "COMPLETED", sub, cost) EXCEPT
                   !.result_key = hit.result_key, !.cost_final_usd = cost,
                   !.progress_percent = 100, !.cache_hit = TRUE,
                   !.started_at = TRUE, !.finished_at = TRUE]
        r == reserve_credits(ledger, u, j, cost)
    IN  /\ Len(jobs) < MaxJobs
        /\ create_rejection(usage, u, sub) = ""
        /\ sub.allowCache
        /\ Cardinality(hits) = 1
        /\ jobs' = Append(jobs, row)
        /\ events' = Append(events, "")
        /\ runs' = Append(runs, 0)
        /\ IF r.outcome = "reserved"
           THEN /\ ledger' = settle_job_credits(r.ledger, j, cost)
                /\ channel' = Append(channel, Message(row))
                /\ resp' = Request("create", 200, "COMPLETED", u, j, sub)
           ELSE /\ ledger' = r.ledger
                /\ channel' = Append(channel, NoMessage)
                /\ resp' = Request("create", 400, "Insufficient credits", u, j, sub)
        /\ UNCHANGED <<call, before, rq, settings, users, queue, cache, usage, wk>>

\* main.py 227-272: the normal path
CreateQueued(u, sub) ==
    LET cost == estimate_cost(sub.manifest, sub.preset)
        j == Len(jobs) + 1
        row == Job(u, "QUEUED", sub, cost)
        r == reserve_credits(ledger, u, j, cost)
    IN  /\ Len(jobs) < MaxJobs
        /\ create_rejection(usage, u, sub) = ""
        /\ ~sub.allowCache \/ CacheRows(cache, sub.manifestHash, sub.preset) = {}
        /\ ledger' = r.ledger
        /\ runs' = Append(runs, 0)
        /\ IF r.outcome = "reserved"
           THEN /\ jobs' = Append(jobs, row)
                /\ events' = Append(events, "QUEUED")
                /\ channel' = Append(channel, [status |-> "QUEUED", progress |-> 0])
                /\ queue' = enqueue_job(queue, j, row.gpu_class)
                /\ resp' = Request("create", 200, "QUEUED", u, j, sub)
           ELSE /\ jobs' = Append(jobs, [row EXCEPT !.status = "FAILED",
                                                    !.error_message = "Insufficient credits"])
                /\ events' = Append(events, "")
                /\ channel' = Append(channel, NoMessage)
                /\ queue' = queue
                /\ resp' = Request("create", 400, "Insufficient credits", u, j, sub)
        /\ UNCHANGED <<call, before, rq, settings, users, cache, usage, wk>>

create_job(u, sub) ==
    \/ CreateRejected(u, sub)
    \/ CreateLookupFails(u, sub)
    \/ CreateCacheHit(u, sub)
    \/ CreateQueued(u, sub)

\* main.py 303-305: the job is looked up by id and owner
CancelNotFound(u, j) ==
    /\ jobs[j].user_id # u
    /\ resp' = [NoResp EXCEPT !.op = "cancel", !.code = 404, !.detail = "Job not found",
                              !.user = u, !.job = j]
    /\ UNCHANGED <<ledgerVars, rq, settings, users, jobVars>>

CancelOwned_any_status(u, j) ==
    /\ jobs[j].user_id = u
    /\ resp' = [NoResp EXCEPT !.op = "cancel", !.code = 200, !.detail = "cancel_requested",
                              !.user = u, !.job = j]
    /\ queue' = remove_job(queue, j, jobs[j].gpu_class)
    /\ jobs' = [jobs EXCEPT ![j].cancel_requested = TRUE, ![j].status = "CANCELLED",
                            ![j].progress_percent = 0, ![j].finished_at = TRUE]
    /\ ledger' = void_reservation(ledger, j, "cancelled")
    /\ channel' = [channel EXCEPT ![j] = [status |-> "CANCELLED", progress |-> 0]]
    /\ UNCHANGED <<call, before, rq, settings, users, events, runs, cache, usage, wk>>

\* main.py 306-321
CancelOwned(u, j) ==
    /\ jobs[j].user_id = u
    /\ resp' = [NoResp EXCEPT !.op = "cancel", !.code = 200, !.detail = "cancel_requested",
                              !.user = u, !.job = j]
    /\ IF jobs[j].status = "QUEUED"
       THEN /\ queue' = remove_job(queue, j, jobs[j].gpu_class)
            /\ jobs' = [jobs EXCEPT ![j].cancel_requested = TRUE, ![j].status = "CANCELLED",
                                    ![j].progress_percent = 0, ![j].finished_at = TRUE]
            /\ ledger' = void_reservation(ledger, j, "cancelled")
            /\ channel' = [channel EXCEPT ![j] = [status |-> "CANCELLED", progress |-> 0]]
       ELSE /\ jobs' = [jobs EXCEPT ![j].cancel_requested = TRUE]
            /\ UNCHANGED <<queue, ledger, channel>>
    /\ UNCHANGED <<call, before, rq, settings, users, events, runs, cache, usage, wk>>

cancel_job(u, j) == CancelNotFound(u, j) \/ CancelOwned(u, j)

(***************************************************************************)
(* Worker: main's dequeue and process_job, one step per update_job         *)
(***************************************************************************)
Holds(w) == wk[w].job

\* worker.py 268: brpop takes the id at the tail of the worker's queue
Dequeue(w) ==
    LET q == queue[WorkerGpu(w)]
    IN  /\ wk[w].pc = "idle"
        /\ q # <<>>
        /\ queue' = [queue EXCEPT ![WorkerGpu(w)] = SubSeq(q, 1, Len(q) - 1)]
        /\ wk' = [wk EXCEPT ![w] = [Idle EXCEPT !.pc = "start", !.job = q[Len(q)]]]
        /\ resp' = NoResp
        /\ UNCHANGED <<ledgerVars, rq, settings, users, jobs, events, channel, runs, cache, usage>>

\* worker.py 155-160: the row is loaded by id and moved to DOWNLOADING whatever its status
Begin(w) ==
    /\ wk[w].pc = "start"
    /\ Updated(Holds(w), update_job(jobs[Holds(w)], "DOWNLOADING", -1, ""))
    /\ runs' = [runs EXCEPT ![Holds(w)] = @ + 1]
    /\ wk' = [wk EXCEPT ![w].pc = "download"]
    /\ resp' = NoResp
    /\ UNCHANGED <<ledgerVars, rq, settings, users, queue, cache, usage>>

\* worker.py 161-193: download and checksum, then validation, passed
StageDone(w) ==
    /\ wk[w].pc \in {"download", "validate"}
    /\ Updated(Holds(w), update_job(jobs[Holds(w)],
                                    IF wk[w].pc = "download" THEN "VALIDATING" ELSE "RENDERING", -1, ""))
    /\ wk' = [wk EXCEPT ![w].pc = IF wk[w].pc = "download" THEN "validate" ELSE "render"]
    /\ resp' = NoResp
    /\ UNCHANGED <<ledgerVars, rq, settings, users, queue, cache, usage, runs>>

\* worker.py 92-95: a PROGRESS line of the renderer
RenderProgress(w, percent) ==
    /\ wk[w].pc = "render"
    /\ wk[w].lines < MaxLines
    /\ Updated(Holds(w), update_job(jobs[Holds(w)], "RENDERING", Min(90, 30 + (percent * 6) \div 10), ""))
    /\ wk' = [wk EXCEPT ![w].lines = @ + 1]
    /\ resp' = NoResp
    /\ UNCHANGED <<ledgerVars, rq, settings, users, queue, cache, usage, runs>>

\* worker.py 98-110, 197: the renderer exited with code 0
RenderDone(w) ==
    /\ wk[w].pc = "render"
    /\ Updated(Holds(w), update_job(jobs[Holds(w)], "PACKAGING", -1, ""))
    /\ wk' = [wk EXCEPT ![w].pc = "package"]
    /\ resp' = NoResp
    /\ UNCHANGED <<ledgerVars, rq, settings, users, queue, cache, usage, runs>>

RenderCancelled_retried(w) ==
    LET j == Holds(w)
        row == [update_job(jobs[j], "CANCELLED", -1, "") EXCEPT !.attempts = @ + 1]
    IN  /\ wk[w].pc = "render"
        /\ jobs[j].cancel_requested
        /\ IF row.attempts < max_attempts
           THEN /\ Updated(j, update_job(row, "QUEUED", 10, ""))
                /\ queue' = [queue EXCEPT ![WorkerGpu(w)] = <<j>> \o @]
                /\ ledger' = ledger
           ELSE /\ Updated(j, update_job(row, "FAILED", -1, "cancelled"))
                /\ ledger' = void_reservation(ledger, j, "failed")
                /\ queue' = queue
        /\ wk' = [wk EXCEPT ![w] = Idle]
        /\ resp' = NoResp
        /\ UNCHANGED <<call, before, rq, settings, users, cache, usage, runs>>

\* worker.py 100-104, 242-245: the loop sees cancel_requested while the renderer runs
RenderCancelled(w) ==
    /\ wk[w].pc = "render"
    /\ jobs[Holds(w)].cancel_requested
    /\ Updated(Holds(w), update_job(jobs[Holds(w)], "CANCELLED", -1, ""))
    /\ ledger' = void_reservation(ledger, Holds(w), "cancelled")
    /\ wk' = [wk EXCEPT ![w] = Idle]
    /\ resp' = NoResp
    /\ UNCHANGED <<call, before, rq, settings, users, queue, cache, usage, runs>>

\* worker.py 105-108: the wall-clock timeout; the RuntimeError it raises is handled next
RenderTimeout(w) ==
    /\ wk[w].pc = "render"
    /\ ~jobs[Holds(w)].cancel_requested
    /\ Updated(Holds(w), update_job(jobs[Holds(w)], "FAILED", -1, "Render timeout"))
    /\ wk' = [wk EXCEPT ![w].pc = "timeout"]
    /\ resp' = NoResp
    /\ UNCHANGED <<ledgerVars, rq, settings, users, queue, cache, usage, runs>>

\* worker.py 241-254: a RuntimeError other than 'cancelled'
RuntimeErrorMessage(pc) ==
    CASE pc = "download" -> "Bundle checksum mismatch"
      [] pc = "validate" -> "Manifest missing from bundle"
      [] pc = "render" -> "aerender failed"
      [] pc = "timeout" -> "timeout"

RuntimeErrorRaised(w) ==
    LET j == Holds(w)
        row == [jobs[j] EXCEPT !.attempts = @ + 1]
    IN  /\ wk[w].pc \in {"download", "validate", "render", "timeout"}
        /\ IF row.attempts < max_attempts
           THEN /\ Updated(j, update_job(row, "QUEUED", 10, ""))
                /\ queue' = enqueue_job(queue, j, WorkerGpu(w))
                /\ ledger' = ledger
           ELSE /\ Updated(j, update_job(row, "FAILED", -1, RuntimeErrorMessage(wk[w].pc)))
                /\ ledger' = void_reservation(ledger, j, "failed")
                /\ queue' = queue
        /\ wk' = [wk EXCEPT ![w] = Idle]
        /\ resp' = NoResp
        /\ UNCHANGED <<call, before, rq, settings, users, cache, usage, runs>>

\* worker.py 255-257: any other exception (storage, ZIP, transcoder, SMTP)
ExceptionRaised(w) ==
    /\ wk[w].pc \in {"download", "validate", "package", "upload", "email"}
    /\ Updated(Holds(w), update_job(jobs[Holds(w)], "FAILED", -1, "error"))
    /\ ledger' = void_reservation(ledger, Holds(w), "failed")
    /\ wk' = [wk EXCEPT ![w] = Idle]
    /\ resp' = NoResp
    /\ UNCHANGED <<call, before, rq, settings, users, queue, cache, usage, runs>>

\* worker.py 198-207: the transcode passed
PackageDone(w) ==
    /\ wk[w].pc = "package"
    /\ Updated(Holds(w), update_job(jobs[Holds(w)], "UPLOADING", -1, ""))
    /\ wk' = [wk EXCEPT ![w].pc = "upload"]
    /\ resp' = NoResp
    /\ UNCHANGED <<ledgerVars, rq, settings, users, queue, cache, usage, runs>>

\* worker.py 208-221: the upload passed; the billed minutes fix the final cost
UploadDone(w, minutes) ==
    LET j == Holds(w)
        row == [jobs[j] EXCEPT !.result_key = j,
                               !.cost_final_usd = compute_actual_cost(jobs[j].manifest_hash, jobs[j].preset, minutes)]
    IN  /\ wk[w].pc = "upload"
        /\ Updated(j, update_job(row, "COMPLETED", 100, ""))
        /\ wk' = [wk EXCEPT ![w].pc = "settle", ![w].minutes = minutes]
        /\ resp' = NoResp
        /\ UNCHANGED <<ledgerVars, rq, settings, users, queue, cache, usage, runs>>

\* worker.py 222-223: settle_job_credits and update_usage
SettleAndUsage(w) ==
    /\ wk[w].pc = "settle"
    /\ ledger' = settle_job_credits(ledger, Holds(w), jobs[Holds(w)].cost_final_usd)
    /\ usage' = update_usage(usage, jobs[Holds(w)], wk[w].minutes)
    /\ wk' = [wk EXCEPT ![w].pc = "cache"]
    /\ resp' = NoResp
    /\ UNCHANGED <<call, before, rq, settings, users, jobs, events, channel, runs, queue, cache>>

\* worker.py 225-234: the CacheEntry insert; the table has no unique constraint
CacheInsert(w, notification_email) ==
    LET row == jobs[Holds(w)]
    IN  /\ wk[w].pc = "cache"
        /\ cache' = Append(cache, [manifest_hash |-> row.manifest_hash, preset |-> row.preset,
                                   result_key |-> Holds(w)])
        /\ wk' = [wk EXCEPT ![w] = IF notification_email THEN [@ EXCEPT !.pc = "email"] ELSE Idle]
        /\ resp' = NoResp
        /\ UNCHANGED <<ledgerVars, rq, settings, users, jobs, events, channel, runs, queue, usage>>

\* worker.py 234-240: the notification was sent
EmailDone(w) ==
    /\ wk[w].pc = "email"
    /\ wk' = [wk EXCEPT ![w] = Idle]
    /\ resp' = NoResp
    /\ UNCHANGED <<ledgerVars, rq, settings, users, jobs, events, channel, runs, queue, cache, usage>>

process_job(w) ==
    \/ Begin(w)
    \/ StageDone(w)
    \/ \E percent \in Percents : RenderProgress(w, percent)
    \/ RenderDone(w)
    \/ RenderCancelled(w)
    \/ RenderTimeout(w)
    \/ RuntimeErrorRaised(w)
    \/ ExceptionRaised(w)
    \/ PackageDone(w)
    \/ \E minutes \in Minutes : UploadDone(w, minutes)
    \/ SettleAndUsage(w)
    \/ \E notification_email \in BOOLEAN : CacheInsert(w, notification_email)
    \/ EmailDone(w)

Next ==
    \/ \E u \in Creators, sub \in Submissions : create_job(u, sub)
    \/ \E u \in Users, j \in 1..Len(jobs) : cancel_job(u, j)
    \/ \E w \in Workers : Dequeue(w) \/ process_job(w)

Init == JobsInit

Spec == Init /\ [][Next]_vars

(***************************************************************************)
(* The job lifecycle, checked under Spec                                   *)
(***************************************************************************)
\* C6: once a job's status is COMPLETED, FAILED or CANCELLED, no later step of the
\* controller or of a worker changes any field of its row (status, progress, error
\* message, cancel_requested, attempts, result key, finished time).
C6_TerminalImmutability ==
    [][\A j \in 1..Len(jobs) : jobs[j].status \in Terminal => jobs'[j] = jobs[j]]_vars

\* C7: every change of a job's status is one of the permitted transitions: a new row
\* starts QUEUED, COMPLETED (cache hit) or FAILED (credit); QUEUED -> DOWNLOADING or
\* CANCELLED; DOWNLOADING -> VALIDATING or FAILED; VALIDATING -> RENDERING or FAILED;
\* RENDERING -> PACKAGING, FAILED or CANCELLED; PACKAGING -> UPLOADING or FAILED;
\* UPLOADING -> COMPLETED or FAILED; a running job may be re-queued to QUEUED after a
\* transient failure; nothing leaves COMPLETED, FAILED or CANCELLED.
C7_PermittedTransitions ==
    [][\A j \in 1..Len(jobs') :
        LET t == jobs'[j].status
        IN  IF j > Len(jobs)
            THEN \/ t \in {"QUEUED", "FAILED"}
                 \/ t = "COMPLETED" /\ jobs'[j].cache_hit
            ELSE LET s == jobs[j].status
                 IN  \/ s = t
                     \/ s = "QUEUED" /\ t \in {"DOWNLOADING", "CANCELLED"}
                     \/ s = "DOWNLOADING" /\ t \in {"VALIDATING", "FAILED", "QUEUED"}
                     \/ s = "VALIDATING" /\ t \in {"RENDERING", "FAILED", "QUEUED"}
                     \/ s = "RENDERING" /\ t \in {"PACKAGING", "FAILED", "CANCELLED", "QUEUED"}
                     \/ s = "PACKAGING" /\ t \in {"UPLOADING", "FAILED"}
                     \/ s = "UPLOADING" /\ t \in {"COMPLETED", "FAILED"}]_vars

\* C8: on every job's progress channel the published progress values are non-decreasing
\* up to the terminal message, and the terminal message (status COMPLETED, FAILED or
\* CANCELLED) carries progress 0 or 100.
C8_MonotoneProgress ==
    [][\A j \in 1..Len(channel') :
        LET new == channel'[j]
            published == new # NoMessage /\ (j > Len(channel) \/ channel[j] # new)
        IN  published =>
                IF new.status \in Terminal
                THEN new.progress \in {0, 100}
                ELSE \/ j > Len(channel)
                     \/ channel[j] = NoMessage
                     \/ channel[j].status \in Terminal
                     \/ new.progress >= channel[j].progress]_vars

\* C9: if a worker has completed a job for (manifest hash, preset) and has finished with
\* it, then a later create with the same manifest and preset and allowCache = true (one
\* that passes validation, the usage caps and the credit check) answers with a job stored
\* directly COMPLETED with cache_hit = true and the cached result key, whose id is on no
\* work queue and with no worker.
C9_CacheDeterminism ==
    LET completed == {k \in 1..Len(jobs) :
                         /\ jobs[k].status = "COMPLETED" /\ ~jobs[k].cache_hit
                         /\ jobs[k].manifest_hash = resp.manifest_hash
                         /\ jobs[k].preset = resp.preset
                         /\ \A w \in Workers : Holds(w) # k}
    IN  (/\ resp.op = "create" /\ resp.allowCache
         /\ resp.detail \notin {"Manifest hash mismatch.", "Job exceeds per-job max spend.",
                                "Monthly usage limit exceeded.", "Insufficient credits"}
         /\ completed \ {resp.job} # {})
        => /\ resp.code = 200
           /\ resp.job \in 1..Len(jobs)
           /\ jobs[resp.job].status = "COMPLETED"
           /\ jobs[resp.job].cache_hit
           /\ \E k \in completed : jobs[resp.job].result_key = jobs[k].result_key
           /\ \A g \in GpuClasses : \A i \in 1..Len(queue[g]) : queue[g][i] # resp.job
           /\ \A w \in Workers : Holds(w) # resp.job

\* C10: in every reachable state the cache holds at most one CacheEntry per (manifest
\* hash, preset), also when several jobs with the same manifest and preset are rendered
\* to completion, so the lookup of create finds zero or one row and never fails.
C10_OneCacheEntryPerKey ==
    /\ \A i, k \in 1..Len(cache) :
           cache[i].manifest_hash = cache[k].manifest_hash /\ cache[i].preset = cache[k].preset
               => i = k
    /\ ~(resp.op = "create" /\ resp.detail = "MultipleResultsFound")

\* C11: whenever create is rejected because the user's available credit is below the
\* estimated cost, the persisted job row is FAILED with error message 'Insufficient
\* credits', its id is on no queue and it has no RESERVE row in status reserved, on the
\* cache-hit path as on the normal path.
C11_CreditRejection ==
    (resp.op = "create" /\ resp.detail = "Insufficient credits")
    => /\ resp.job \in 1..Len(jobs)
       /\ jobs[resp.job].status = "FAILED"
       /\ jobs[resp.job].error_message = "Insufficient credits"
       /\ \A g \in GpuClasses : \A i \in 1..Len(queue[g]) : queue[g][i] # resp.job
       /\ \A i \in ReserveRows(ledger, resp.job) : ledger[i].status # "reserved"

C13_TimeoutIsFatal ==
    [][\A w \in Workers :
        (wk[w].pc = "timeout" /\ wk'[w].pc # "timeout")
        => LET j == Holds(w)
           IN  /\ jobs'[j].status = "FAILED"
               /\ jobs'[j].error_message = "Render timeout"
               /\ jobs'[j].result_key = NoJob
               /\ \A i \in ReserveRows(ledger', j) : ledger'[i].status = "voided"
               /\ \A g \in GpuClasses : \A i \in 1..Len(queue'[g]) : queue'[g][i] # j]_vars

\* C14: for every job attempts never exceeds max_attempts and a worker runs the job at
\* most max_attempts times; a RuntimeError other than a cancellation increments attempts;
\* if attempts < max_attempts afterwards the job is set to QUEUED with progress 10 and
\* pushed on the queue exactly once; otherwise the job goes to FAILED, its reservation is
\* voided and it is never enqueued again.
C14_BoundedRetry ==
    /\ [](\A j \in 1..Len(jobs) :
            /\ jobs[j].attempts <= max_attempts
            /\ runs[j] <= max_attempts
            /\ jobs[j].attempts = max_attempts =>
                   \A g \in GpuClasses : \A i \in 1..Len(queue[g]) : queue[g][i] # j)
    /\ [][\A j \in 1..Len(jobs) :
            /\ jobs'[j].attempts \in {jobs[j].attempts, jobs[j].attempts + 1}
            /\ jobs'[j].attempts = jobs[j].attempts + 1 =>
                   LET places == {<<g, i>> \in GpuClasses \X (1..MaxJobs + max_attempts) :
                                     i <= Len(queue'[g]) /\ queue'[g][i] = j}
                   IN  IF jobs'[j].attempts < max_attempts
                       THEN /\ jobs'[j].status = "QUEUED"
                            /\ jobs'[j].progress_percent = 10
                            /\ Cardinality(places) = 1
                       ELSE /\ jobs'[j].status = "FAILED"
                            /\ \A i \in ReserveRows(ledger', j) : ledger'[i].status = "voided"
                            /\ places = {}]_vars

C14_Witness ==
    \E j \in 1..Len(jobs) :
        /\ jobs[j].attempts = max_attempts /\ runs[j] = max_attempts
        /\ jobs[j].status = "FAILED"
        /\ \E i \in ReserveRows(ledger, j) : ledger[i].status = "voided" /\ ledger[i].details = "failed"

(***************************************************************************)
(* The ledger API again, checked under SpecLedger                          *)
(***************************************************************************)
\* C15: for any user, job and amount A with 0 < A <= available, reserve(user, job, A)
\* directly followed by void(job, reason) leaves the user's posted balance and available
\* balance equal to their values before the reserve.
C15_ReserveThenVoid ==
    (/\ call.op = "void"
     /\ before.op = "reserve" /\ before.outcome = "reserved"
     /\ before.job = call.job)
    => LET b == get_balances(ledger, before.user)
       IN  /\ b.posted_usd = before.posted
           /\ b.available_usd = before.posted + before.reserved

C15_Witness ==
    /\ call.op = "void" /\ call.outcome = "voided"
    /\ before.op = "reserve" /\ before.outcome = "reserved" /\ before.job = call.job
    /\ before.reserved < 0
    /\ get_balances(ledger, before.user).posted_usd > 0

(***************************************************************************)
(* The job lifecycle again, checked under Spec                             *)
(***************************************************************************)
\* C16: when a worker completes a queued job and settles it at the job's final cost
\* (below, equal to or above the reserved estimate, the user's funds covering it), the
\* settlement lowers the user's posted balance by exactly cost_final_usd (a reservation
\* leaves posted untouched, so this is the job's whole effect on it since submission),
\* and a REFUND row exists for the job exactly when the final cost is below the estimate.
C16_SettledAtFinalCost ==
    [][\A w \in Workers :
        (wk[w].pc = "settle" /\ wk'[w].pc = "cache") =>
            LET j == Holds(w)
                u == jobs[j].user_id
                final == jobs[j].cost_final_usd
                open == {i \in ReserveRows(ledger, j) : ledger[i].status = "reserved"}
                covered == \A i \in open :
                               final <= get_balances(ledger, u).available_usd - ledger[i].amount_usd
            IN  (open # {} /\ covered) =>
                    /\ get_balances(ledger', u).posted_usd = get_balances(ledger, u).posted_usd - final
                    /\ (\E i \in 1..Len(ledger') :
                            ledger'[i].job_id = j /\ ledger'[i].entry_type = "REFUND")
                       <=> final < jobs[j].cost_estimate_usd]_vars

C18_SkipNotQueued ==
    [][\A w \in Workers :
        (wk[w].pc = "start" /\ wk'[w].pc # "start" /\ jobs[Holds(w)].status # "QUEUED") =>
            LET j == Holds(w)
            IN  /\ jobs'[j] = jobs[j]
                /\ events'[j] = events[j]
                /\ channel'[j] = channel[j]
                /\ ledger' = ledger]_vars

\* C19: every status transition of a job, made by the controller (create to QUEUED,
\* cache-hit COMPLETED, credit FAILED, cancel to CANCELLED) or by the worker, appends a
\* JobEvent for the job (so the job's last event has the new status) and publishes a
\* progress message with the new status on its channel.
C19_TransitionsRecorded ==
    [][\A j \in 1..Len(jobs') :
        (j > Len(jobs) \/ jobs'[j].status # jobs[j].status) =>
            /\ events'[j] = jobs'[j].status
            /\ channel'[j].status = jobs'[j].status]_vars

(***************************************************************************)
(* GET /credits, checked under SpecLedger                                  *)
(***************************************************************************)
\* main.py 340-362: the balances of get_balances are reported as they are
get_credits(L, u) ==
    LET balances == get_balances(L, u)
    IN  [postedBalanceUsd |-> balances.posted_usd,
         reservedUsd |-> balances.reserved_usd,
         availableUsd |-> balances.available_usd]

\* C20: the reserved balance computed and reported for a user is the absolute value of
\* the sum of the amounts of the rows in status reserved, so it is non-negative in every
\* reachable state, and available = posted - reserved.
C20_ReservedNonNegative ==
    \A u \in Users :
        LET c == get_credits(ledger, u)
        IN  /\ c.reservedUsd = Abs(SumWhere(ledger, u, "reserved"))
            /\ c.reservedUsd >= 0
            /\ c.availableUsd = c.postedBalanceUsd - c.reservedUsd


(***************************************************************************)
(* Concurrent webhook deliveries: each server process runs lemon_webhook   *)
(* on its own database session. The existence queries, the inserts and     *)
(* their commits are separate statements, and no exception handler wraps   *)
(* a commit, so a unique-constraint violation leaves the handler as an     *)
(* unhandled IntegrityError (HTTP 500).                                    *)
(***************************************************************************)
Deliveries == {"d1", "d2"}

NoPayload ==
    [signature_ok |-> FALSE, event |-> "order_created", id |-> NoExt, email |-> NoUser,
     amount |-> BadAmount]

IdleDelivery == [pc |-> "idle", p |-> NoPayload, checked |-> FALSE, code |-> 0, detail |-> ""]

Responded(task, code, detail) == [task EXCEPT !.pc = "done", !.code = code, !.detail = detail]

WebhookRaceInit ==
    /\ ledger = <<>>
    /\ call = NoCall
    /\ before = NoCall
    /\ rq = [d \in Deliveries |-> IdleDelivery]
    /\ settings \in [lemon_webhook_secret : {TRUE}, lemon_auto_create_users : BOOLEAN]
    /\ users = {"u1"}
    /\ resp = NoResp
    /\ jobs = <<>> /\ events = <<>> /\ channel = <<>> /\ runs = <<>>
    /\ queue = [g \in GpuClasses |-> <<>>]
    /\ cache = <<>> /\ usage = <<>>
    /\ wk = <<>>

\* main.py 459-482: secret, signature, event name, email and id, then the query for a
\* row with this external id
WebhookAccept(d, p) ==
    /\ rq[d].pc = "idle"
    /\ rq' = [rq EXCEPT ![d] =
                 LET task == [rq[d] EXCEPT !.p = p]
                 IN  IF ~settings.lemon_webhook_secret
                     THEN Responded(task, 500, "Webhook not configured")
                     ELSE IF ~p.signature_ok THEN Responded(task, 401, "Invalid signature")
                     ELSE IF p.event \notin {"order_created", "subscription_payment_success"}
                          THEN Responded(task, 200, "ignored")
                     ELSE IF p.email = NoUser \/ p.id = NoExt
                          THEN Responded(task, 400, "Missing email or id")
                     ELSE IF ExtRows(ledger, p.id) # {} THEN Responded(task, 200, "existing")
                     ELSE [task EXCEPT !.pc = "user", !.checked = TRUE]]
    /\ UNCHANGED <<ledgerVars, settings, users, resp, jobVars>>

\* main.py 484-501: the amount, then the query for the user
WebhookUser(d) ==
    /\ rq[d].pc = "user"
    /\ rq' = [rq EXCEPT ![d] =
                 IF rq[d].p.amount = BadAmount THEN Responded(@, 400, "Unsupported currency")
                 ELSE IF rq[d].p.email \in users THEN [@ EXCEPT !.pc = "purchase"]
                 ELSE IF ~settings.lemon_auto_create_users THEN Responded(@, 404, "User not found")
                 ELSE [@ EXCEPT !.pc = "create_user"]]
    /\ UNCHANGED <<ledgerVars, settings, users, resp, jobVars>>

\* main.py 502-510: db.add(user); db.commit(), users.email is unique
WebhookCreateUser(d) ==
    /\ rq[d].pc = "create_user"
    /\ IF rq[d].p.email \in users
       THEN /\ rq' = [rq EXCEPT ![d] = Responded(@, 500, "IntegrityError")]
            /\ users' = users
       ELSE /\ rq' = [rq EXCEPT ![d].pc = "purchase"]
            /\ users' = users \cup {rq[d].p.email}
    /\ UNCHANGED <<ledgerVars, settings, resp, jobVars>>

\* credits.py 127-130: credit_purchase's own query for a row with this external id
PurchaseCheck(d) ==
    /\ rq[d].pc = "purchase"
    /\ rq' = [rq EXCEPT ![d] =
                 IF ExtRows(ledger, rq[d].p.id) # {} THEN Responded(@, 200, "ok")
                 ELSE [@ EXCEPT !.pc = "insert"]]
    /\ UNCHANGED <<ledgerVars, settings, users, resp, jobVars>>

\* credits.py 131-141 and main.py 518-519: db.add(entry); db.commit(); return ok
PurchaseInsert(d) ==
    LET p == rq[d].p
        entry == CreditLedger(p.email, NoJob, "PURCHASE", "posted", p.amount, p.id, "lemon")
    IN  /\ rq[d].pc = "insert"
        /\ IF UniqueViolation(ledger, entry)
           THEN /\ rq' = [rq EXCEPT ![d] = Responded(@, 500, "IntegrityError")]
                /\ ledger' = ledger
           ELSE /\ rq' = [rq EXCEPT ![d] = Responded(@, 200, "ok")]
                /\ ledger' = Append(ledger, entry)
        /\ UNCHANGED <<call, before, settings, users, resp, jobVars>>

WebhookRaceNext ==
    \/ \E d \in Deliveries, p \in Payloads : WebhookAccept(d, p)
    \/ \E d \in Deliveries : WebhookUser(d)
    \/ \E d \in Deliveries : WebhookCreateUser(d)
    \/ \E d \in Deliveries : PurchaseCheck(d)
    \/ \E d \in Deliveries : PurchaseInsert(d)

SpecWebhookRace == WebhookRaceInit /\ [][WebhookRaceNext]_vars

\* C21: when two deliveries of the same payload both pass the existence check before
\* either inserts, both end acknowledged (HTTP 200), exactly one PURCHASE row with the
\* external id is stored, and neither surfaces the unique-constraint violation.
C21_ConcurrentDeliveries ==
    \A d, e \in Deliveries :
        (/\ d # e
         /\ rq[d].pc = "done" /\ rq[e].pc = "done"
         /\ rq[d].p = rq[e].p
         /\ rq[d].checked /\ rq[e].checked
         /\ ExtRows(ledger, rq[d].p.id) # {})
        => /\ rq[d].code = 200 /\ rq[e].code = 200
           /\ Cardinality(PurchaseRows(ledger, rq[d].p.id)) = 1


(***************************************************************************)
(* The work queue with several workers: create_job pushes new ids          *)
(* (lpush), cancel_job removes an id (lrem), and the worker processes of   *)
(* one GPU class race on brpop. Redis runs each command atomically.        *)
(* process_job is taken as a whole here: `runs` counts its calls.          *)
(***************************************************************************)
MaxQueued == 4
RacingWorkers == {"w1", "w2"}

InQueues(Q, j) == \E g \in GpuClasses : \E i \in 1..Len(Q[g]) : Q[g][i] = j

QueueInit ==
    /\ ledger = <<>>
    /\ call = NoCall
    /\ before = NoCall
    /\ rq = <<>>
    /\ settings = [lemon_webhook_secret |-> FALSE, lemon_auto_create_users |-> FALSE]
    /\ users = Users
    /\ resp = NoResp
    /\ jobs = <<>> /\ events = <<>> /\ channel = <<>> /\ runs = <<>>
    /\ queue = [g \in GpuClasses |-> <<>>]
    /\ cache = <<>> /\ usage = <<>>
    /\ wk = [w \in RacingWorkers |-> Idle]

\* main.py 263: enqueue_job(job.id, gpu_class) for a job just created
Produce(g) ==
    /\ Len(runs) < MaxQueued
    /\ queue' = enqueue_job(queue, Len(runs) + 1, g)
    /\ runs' = Append(runs, 0)
    /\ UNCHANGED <<ledgerVars, rq, settings, users, resp, jobs, events, channel, cache, usage, wk>>

\* main.py 308: remove_job(job.id, job.gpu_class) for a job being cancelled
Withdraw(j, g) ==
    /\ InQueues(queue, j)
    /\ queue' = remove_job(queue, j, g)
    /\ UNCHANGED <<ledgerVars, rq, settings, users, resp, jobs, events, channel, runs, cache, usage, wk>>

\* worker.py 270: process_job(job_id), from its call to its return
Processed(w) ==
    /\ wk[w].pc = "start"
    /\ runs' = [runs EXCEPT ![Holds(w)] = @ + 1]
    /\ wk' = [wk EXCEPT ![w] = Idle]
    /\ UNCHANGED <<ledgerVars, rq, settings, users, resp, jobs, events, channel, queue, cache, usage>>

QueueNext ==
    \/ \E g \in GpuClasses : Produce(g)
    \/ \E j \in 1..MaxQueued, g \in GpuClasses : Withdraw(j, g)
    \/ \E w \in RacingWorkers : Dequeue(w)
    \/ \E w \in RacingWorkers : Processed(w)

SpecQueue == QueueInit /\ [][QueueNext]_vars

\* C22: each queue is FIFO (the id a worker receives was enqueued before every id still
\* on that queue; ids are numbered in enqueue order here), and with workers racing on a
\* queue every enqueued id is delivered to at most one of them.
C22_FifoAtMostOnce ==
    /\ [](\A j \in 1..Len(runs) :
            Cardinality({w \in RacingWorkers : Holds(w) = j}) + runs[j]
                + (IF InQueues(queue, j) THEN 1 ELSE 0) <= 1)
    /\ [][\A w \in RacingWorkers :
            (wk[w].pc = "idle" /\ wk'[w].pc = "start")
            => \A i \in 1..Len(queue'[WorkerGpu(w)]) : queue'[WorkerGpu(w)][i] > wk'[w].job]_vars

C22_Witness ==
    /\ wk["w1"].pc = "start" /\ wk["w2"].pc = "start"
    /\ Holds("w1") # Holds("w2")
    /\ queue["rtx4090"] # <<>>
    /\ \E j \in 1..Len(runs) : runs[j] = 1


(***************************************************************************)
(* create_job against the usage caps: the month's usage row is whatever    *)
(* earlier jobs left, submissions are priced below, at and above the       *)
(* per-job cap, and the cache is not asked for.                            *)
(***************************************************************************)
UsageCosts == {150, 198, 199, 200}

CapSubmissions ==
    {[manifest |-> m, manifestHash |-> hash_manifest(m), preset |-> "web", allowCache |-> FALSE] :
        m \in {"m1", "m2", "m3"}}

CapsInit ==
    /\ ledger = <<CreditLedger("u1", NoJob, "PURCHASE", "posted", InitialCredit, NoExt, "lemon")>>
    /\ call = NoCall
    /\ before = NoCall
    /\ rq = <<>>
    /\ settings = [lemon_webhook_secret |-> FALSE, lemon_auto_create_users |-> FALSE]
    /\ users = Users
    /\ resp = NoResp
    /\ jobs = <<>> /\ events = <<>> /\ channel = <<>> /\ runs = <<>>
    /\ queue = [g \in GpuClasses |-> <<>>]
    /\ cache = <<>>
    /\ usage \in {<<>>} \cup {<<[user_id |-> u, cost_usd |-> c, minutes |-> 1]>> :
                                 u \in Users, c \in UsageCosts}
    /\ wk = [w \in Workers |-> Idle]

CapsNext ==
    \E u \in Users, sub \in CapSubmissions : CreateRejected(u, sub) \/ CreateQueued(u, sub)

SpecCaps == CapsInit /\ [][CapsNext]_vars

RecordedUsage(u) ==
    IF \E i \in 1..Len(usage) : usage[i].user_id = u
    THEN usage[CHOOSE i \in 1..Len(usage) : usage[i].user_id = u].cost_usd
    ELSE 0

\* C23: create rejects a submission whose estimated cost exceeds the per-job cap, or
\* whose estimated cost plus the user's recorded usage of the month exceeds the monthly
\* cap; the rejected submission leaves no job row, no ledger entry and no queue entry.
C23_UsageCaps ==
    [][\A u \in Users, sub \in CapSubmissions :
        (/\ resp'.op = "create" /\ resp'.user = u /\ resp'.manifest_hash = sub.manifestHash
         /\ \/ estimate_cost(sub.manifest, sub.preset) > per_job_max_usd
            \/ estimate_cost(sub.manifest, sub.preset) + RecordedUsage(u) > monthly_limit_usd)
        => /\ resp'.code = 400
           /\ resp'.job = NoJob
           /\ jobs' = jobs /\ ledger' = ledger /\ queue' = queue]_vars

C23_Witness ==
    /\ resp.op = "create" /\ resp.code = 400
    /\ resp.detail = "Monthly usage limit exceeded."
    /\ resp.manifest_hash = "h1"
    /\ Len(jobs) = 1 /\ jobs[1].status = "QUEUED"
    /\ Len(ledger) = 2


(***************************************************************************)
(* Concurrent update_usage: each worker process completes jobs on its own  *)
(* database session. The query for the month's row (worker.py 65) and the  *)
(* write of the sums computed from what it returned (worker.py 66-72) are  *)
(* separate statements; the table has no unique key on (user, month).      *)
(***************************************************************************)
MaxUsage == 5
BilledMinutes == {1, 2}
NoRow == 0

IdleUpdate == [pc |-> "idle", user |-> NoUser, cost |-> 0, minutes |-> 0,
               row |-> NoRow, seen_cost |-> 0, seen_minutes |-> 0]

UsageRows(U, u) == {i \in 1..Len(U) : U[i].user_id = u}

RECURSIVE TotalCost(_)
TotalCost(U) == IF U = <<>> THEN 0 ELSE Head(U).cost_usd + TotalCost(Tail(U))

UsageRaceInit ==
    /\ ledger = <<>>
    /\ call = NoCall
    /\ before = NoCall
    /\ rq = <<>>
    /\ settings = [lemon_webhook_secret |-> FALSE, lemon_auto_create_users |-> FALSE]
    /\ users = Users
    /\ resp = NoResp
    /\ jobs = <<>> /\ events = <<>> /\ channel = <<>> /\ runs = <<>>
    /\ queue = [g \in GpuClasses |-> <<>>]
    /\ cache = <<>>
    /\ usage = <<>>
    /\ wk = [w \in RacingWorkers |-> IdleUpdate]

\* worker.py 211-223: a job of user u completes with its billed minutes and final cost
UsageBegin(w, u, minutes) ==
    /\ wk[w].pc = "idle"
    /\ TotalCost(usage) < MaxUsage
    /\ wk' = [wk EXCEPT ![w] = [IdleUpdate EXCEPT !.pc = "query", !.user = u,
                                   !.cost = compute_actual_cost("m1", "web", minutes),
                                   !.minutes = minutes]]
    /\ UNCHANGED <<ledgerVars, rq, settings, users, resp, jobs, events, channel, runs, queue, cache, usage>>

\* worker.py 65: one_or_none() on the rows of (user, month); several rows raise
\* MultipleResultsFound, which process_job handles as any other exception
UsageQuery(w) ==
    LET rows == UsageRows(usage, wk[w].user)
    IN  /\ wk[w].pc = "query"
        /\ wk' = [wk EXCEPT ![w] =
                     IF Cardinality(rows) > 1 THEN [@ EXCEPT !.pc = "failed"]
                     ELSE IF rows = {} THEN [@ EXCEPT !.pc = "write"]
                     ELSE LET i == CHOOSE x \in rows : TRUE
                          IN  [@ EXCEPT !.pc = "write", !.row = i,
                                        !.seen_cost = usage[i].cost_usd,
                                        !.seen_minutes = usage[i].minutes]]
        /\ UNCHANGED <<ledgerVars, rq, settings, users, resp, jobs, events, channel, runs, queue, cache, usage>>

\* worker.py 66-72: a new row when none was found, else the sums from the values read
UsageWrite(w) ==
    LET t == wk[w]
    IN  /\ t.pc = "write"
        /\ usage' = IF t.row = NoRow
                    THEN Append(usage, [user_id |-> t.user, cost_usd |-> t.cost, minutes |-> t.minutes])
                    ELSE [usage EXCEPT ![t.row].cost_usd = t.seen_cost + t.cost,
                                       ![t.row].minutes = t.seen_minutes + t.minutes]
        /\ wk' = [wk EXCEPT ![w] = IdleUpdate]
        /\ UNCHANGED <<ledgerVars, rq, settings, users, resp, jobs, events, channel, runs, queue, cache>>

\* worker.py 255-259: the job of the failed update ends FAILED, the worker takes the next
UsageFailed(w) ==
    /\ wk[w].pc = "failed"
    /\ wk' = [wk EXCEPT ![w] = IdleUpdate]
    /\ UNCHANGED <<ledgerVars, rq, settings, users, resp, jobs, events, channel, runs, queue, cache, usage>>

UsageRaceNext ==
    \/ \E w \in RacingWorkers, u \in Users, m \in BilledMinutes : UsageBegin(w, u, m)
    \/ \E w \in RacingWorkers : UsageQuery(w)
    \/ \E w \in RacingWorkers : UsageWrite(w)
    \/ \E w \in RacingWorkers : UsageFailed(w)

SpecUsageRace == UsageRaceInit /\ [][UsageRaceNext]_vars

\* C24: for each (user, month) there is a single usage aggregate, and its cost and its
\* minutes never decrease, also when two workers complete jobs of the same user
\* concurrently and their read-modify-write updates interleave.
C24_UsageAggregate ==
    /\ [](\A u \in Users : Cardinality(UsageRows(usage, u)) <= 1)
    /\ [][\A i \in 1..Len(usage) :
            /\ usage'[i].cost_usd >= usage[i].cost_usd
            /\ usage'[i].minutes >= usage[i].minutes]_vars



(***************************************************************************)
(* settle_job_credits and void_reservation step by step, under SpecLedger  *)
(***************************************************************************)
\* the job's RESERVE row is there and in status reserved
OpenReservation(L, j) == \E i \in ReserveRows(L, j) : L[i].status = "reserved"

\* the rows of job j with the given entry type among those a step appended
Appended(L, M, j, type) ==
    {k \in (Len(L) + 1)..Len(M) : M[k].job_id = j /\ M[k].entry_type = type}

\* C25: a settle call on a reserved entry with reserved amount R and charged amount c
\* appends a REFUND entry exactly when c < R, a SETTLEMENT entry exactly when c > R,
\* neither when c = R, and never both.
C25_RefundOrSettlement ==
    [][\A j \in LedgerJobs :
        (call'.op = "settle" /\ call'.job = j /\ OpenReservation(ledger, j))
        => LET i == CHOOSE x \in ReserveRows(ledger, j) : TRUE
               R == Abs(ledger[i].amount_usd)
               c == -ledger'[i].amount_usd
               refunds == Cardinality(Appended(ledger, ledger', j, "REFUND"))
               settlements == Cardinality(Appended(ledger, ledger', j, "SETTLEMENT"))
           IN  /\ refunds = (IF c < R THEN 1 ELSE 0)
               /\ settlements = (IF c > R THEN 1 ELSE 0)
               /\ Len(ledger') = Len(ledger) + refunds + settlements
               /\ refunds + settlements <= 1]_vars

C25_Witness ==
    /\ call.op = "settle" /\ call.outcome = "settled"
    /\ ledger[Len(ledger)].entry_type = "SETTLEMENT"
    /\ ledger[Len(ledger)].job_id = call.job
    /\ ledger[Len(ledger)].amount_usd = -1


\* C26: a job's RESERVE entry is resolved at most once: its status goes from reserved to
\* posted (settle) or to voided (void) and never changes afterwards; a settle or void call
\* on a job whose RESERVE entry is absent or not in status reserved changes no ledger
\* entry and no balance.
C26_ResolvedOnce ==
    /\ [][\A i \in 1..Len(ledger) :
            (ledger[i].entry_type = "RESERVE" /\ ledger[i].status # "reserved")
            => ledger'[i] = ledger[i]]_vars
    /\ [][\A i \in 1..Len(ledger) :
            (ledger[i].entry_type = "RESERVE" /\ ledger'[i].status # ledger[i].status)
            => \/ call'.op = "settle" /\ ledger'[i].status = "posted"
               \/ call'.op = "void" /\ ledger'[i].status = "voided"]_vars
    /\ [][(call'.op \in {"settle", "void"} /\ ~OpenReservation(ledger, call'.job))
            => /\ ledger' = ledger
               /\ \A u \in Users : get_balances(ledger', u) = get_balances(ledger, u)]_vars

C26_Witness ==
    /\ call.op = "void" /\ call.outcome = "noop"
    /\ \E i \in ReserveRows(ledger, call.job) : ledger[i].status = "posted"
    /\ \E j \in LedgerJobs : ReserveRows(ledger, j) = {}


\* C27: settle charges clamp(actualCost, 0, maxCharge), where maxCharge is the user's
\* available balance plus the reserved amount of this job, not below 0: the RESERVE
\* entry's amount after settle is minus that value, and the entry carries the
\* insufficient_funds detail with the shortfall exactly when actualCost > maxCharge.
C27_ClampedCharge ==
    [][\A j \in LedgerJobs :
        (call'.op = "settle" /\ call'.job = j /\ OpenReservation(ledger, j))
        => LET i == CHOOSE x \in ReserveRows(ledger, j) : TRUE
               actualCost == call'.amount
               available == SumWhere(ledger, ledger[i].user_id, "posted")
                            + SumWhere(ledger, ledger[i].user_id, "reserved")
               maxCharge == Max(0, available + Abs(ledger[i].amount_usd))
               charge == IF actualCost < 0 THEN 0
                         ELSE IF actualCost > maxCharge THEN maxCharge ELSE actualCost
           IN  /\ ledger'[i].status = "posted"
               /\ ledger'[i].amount_usd = -charge
               /\ (ledger'[i].details = "insufficient_funds") <=> (actualCost > maxCharge)
               /\ ledger'[i].shortfall = (IF actualCost > maxCharge THEN actualCost - maxCharge ELSE 0)]_vars

C27_Witness ==
    /\ call.op = "settle" /\ call.outcome = "settled" /\ call.amount = 3
    /\ \E i \in ReserveRows(ledger, call.job) :
          /\ ledger[i].details = "insufficient_funds"
          /\ ledger[i].shortfall = 2
          /\ ledger[i].amount_usd = -1


\* C28, checked under SpecReserveRace: a reserve call with amount <= 0 or with amount
\* greater than the user's available balance leaves the ledger unchanged, and a reserve
\* call that succeeds never makes the user's available balance negative.
C28_ReserveGuard ==
    /\ [][\A r \in Requests :
            (rq[r].pc = "idle" /\ rq'[r].pc # "idle" /\ rq'[r].amount <= 0)
            => (rq'[r].pc = "done" /\ ledger' = ledger)]_vars
    /\ [][\A r \in Requests :
            (rq[r].pc = "insert" /\ rq'[r].pc = "done")
            => LET u == rq[r].user
               IN  /\ rq[r].amount > get_balances(ledger, u).available_usd => ledger' = ledger
                   /\ ledger' # ledger => get_balances(ledger', u).available_usd >= 0]_vars


\* C29: if any exception other than a RuntimeError is raised while a worker processes a
\* job, the job goes to FAILED without incrementing attempts and without being
\* re-enqueued, and its reservation is voided.
C29_OtherExceptionIsFatal ==
    [][\A w \in Workers :
        ExceptionRaised(w)
        => LET j == Holds(w)
           IN  /\ jobs'[j].status = "FAILED"
               /\ jobs'[j].attempts = jobs[j].attempts
               /\ ~InQueues(queue', j)
               /\ \A i \in ReserveRows(ledger', j) : ledger'[i].status = "voided"]_vars


\* C30: if cancel_requested is set on a job and the worker reaches a render-loop iteration
\* while the renderer is still running, the worker ends the render: the job goes to
\* CANCELLED with progress 0, its reservation is voided, attempts is not incremented and
\* the job is not re-enqueued; the timeout branch is not taken for such a job.
C30_CancelDuringRender ==
    [][\A w \in Workers :
        /\ RenderCancelled(w)
           => LET j == Holds(w)
              IN  /\ jobs'[j].status = "CANCELLED"
                  /\ jobs'[j].progress_percent = 0
                  /\ channel'[j] = [status |-> "CANCELLED", progress |-> 0]
                  /\ jobs'[j].attempts = jobs[j].attempts
                  /\ ~InQueues(queue', j)
                  /\ ReserveRows(ledger', j) # {}
                  /\ \A i \in ReserveRows(ledger', j) : ledger'[i].status = "voided"
                  /\ wk'[w].pc = "idle"
        /\ (wk[w].pc = "render" /\ jobs[Holds(w)].cancel_requested) => wk'[w].pc # "timeout"]_vars

C30_Witness ==
    \E j \in 1..Len(jobs) :
        /\ jobs[j].status = "CANCELLED" /\ jobs[j].started_at /\ jobs[j].cancel_requested
        /\ events[j] = "CANCELLED"
        /\ \E i \in ReserveRows(ledger, j) : ledger[i].status = "voided" /\ ledger[i].details = "cancelled"
        /\ \A w \in Workers : wk[w].pc = "idle"


\* C31: a cancel call on a job whose status is not QUEUED changes only the
\* cancel_requested flag: the job's status, progress and finished time, the work queues,
\* the ledger and the progress channel are left unchanged by that call.
C31_CancelSetsFlagOnly ==
    [][\A j \in 1..Len(jobs) :
        (resp'.op = "cancel" /\ resp'.code = 200 /\ resp'.job = j /\ jobs[j].status # "QUEUED")
        => /\ jobs' = [jobs EXCEPT ![j].cancel_requested = TRUE]
           /\ queue' = queue
           /\ ledger' = ledger
           /\ channel' = channel
           /\ events' = events]_vars

C31_Witness ==
    /\ resp.op = "cancel" /\ resp.code = 200
    /\ jobs[resp.job].status = "RENDERING"
    /\ jobs[resp.job].cancel_requested
    /\ channel[resp.job].status = "RENDERING"
    /\ \E i \in ReserveRows(ledger, resp.job) : ledger[i].status = "reserved"


\* C32, checked under SpecWebhook: the webhook handler creates a user or a ledger entry
\* only when all checks passed: secret configured, signature valid, event name
\* order_created or subscription_payment_success, external id and email present,
\* external id not yet in the ledger, amount parsed in USD; a request failing any check
\* (or carrying another event name) leaves users and ledger unchanged.
C32_WebhookChecks ==
    [][\A p \in Payloads :
        Deliver(p)
        => LET passed == /\ settings.lemon_webhook_secret
                         /\ p.signature_ok
                         /\ p.event \in {"order_created", "subscription_payment_success"}
                         /\ p.id # NoExt /\ p.email # NoUser
                         /\ ExtRows(ledger, p.id) = {}
                         /\ p.amount # BadAmount
           IN  /\ ~passed => (users' = users /\ ledger' = ledger)
               /\ (ledger' # ledger \/ users' # users) =>
                     /\ passed
                     /\ Len(ledger') = Len(ledger) + 1
                     /\ ledger'[Len(ledger')].entry_type = "PURCHASE"
                     /\ ledger'[Len(ledger')].external_id = p.id
                     /\ ledger'[Len(ledger')].user_id = p.email
                     /\ users' = users \cup {p.email}]_vars

C32_Witness ==
    /\ resp.op = "webhook" /\ resp.code = 200 /\ resp.detail = "ok"
    /\ resp.user = "u2" /\ "u2" \in users
    /\ Cardinality(PurchaseRows(ledger, resp.ext)) = 1
    /\ Len(ledger) = 2


(***************************************************************************)
(* External ids: webhook purchases and admin adjustments on one ledger.    *)
(* An idempotency key may be absent (None) or the empty string; both skip  *)
(* manual_adjust's lookup, and the empty string is stored as it is.        *)
(***************************************************************************)
MaxAdjustments == 2
EmptyKey == ""
AdjustAmounts == {-1, 2}
\* signed order_created deliveries with a good amount; the other checks are SpecWebhook's
KeyedPayloads ==
    {p \in Payloads : p.signature_ok /\ p.event = "order_created" /\ p.email # NoUser /\ p.amount = 2}

\* credits.py 144-159: the result is the new table and how the call ended
manual_adjust(L, u, amount, reason, ext) ==
    LET entry == CreditLedger(u, NoJob, "ADJUSTMENT", "posted", amount, ext, reason)
    IN  IF ext \notin {NoExt, EmptyKey} /\ ExtRows(L, ext) # {} THEN [ledger |-> L, outcome |-> "existing"]
        ELSE IF UniqueViolation(L, entry) THEN [ledger |-> L, outcome |-> "integrity_error"]
        ELSE [ledger |-> Append(L, entry), outcome |-> "posted"]

\* main.py 365-387: the target is looked up, then manual_adjust
AdminAdjust(u, amount, key) ==
    LET r == manual_adjust(ledger, u, amount, "admin", key)
        adjustments == {i \in 1..Len(ledger) : ledger[i].entry_type = "ADJUSTMENT"}
    IN  /\ Cardinality(adjustments) < MaxAdjustments
        /\ IF u \notin users
           THEN /\ ledger' = ledger
                /\ resp' = [NoResp EXCEPT !.op = "adjust", !.code = 404, !.detail = "User not found",
                                          !.user = u, !.ext = key]
           ELSE /\ ledger' = r.ledger
                /\ resp' = [NoResp EXCEPT !.op = "adjust",
                                          !.code = IF r.outcome = "integrity_error" THEN 500 ELSE 200,
                                          !.detail = r.outcome, !.user = u, !.ext = key]
        /\ UNCHANGED <<call, before, rq, settings, users, jobVars>>

ExternalIdInit ==
    /\ ledger = <<>>
    /\ call = NoCall
    /\ before = NoCall
    /\ rq = <<>>
    /\ settings \in [lemon_webhook_secret : {TRUE}, lemon_auto_create_users : BOOLEAN]
    /\ users = {"u1"}
    /\ resp = NoResp
    /\ jobs = <<>> /\ events = <<>> /\ channel = <<>> /\ runs = <<>>
    /\ queue = [g \in GpuClasses |-> <<>>]
    /\ cache = <<>> /\ usage = <<>>
    /\ wk = <<>>

ExternalIdNext ==
    \/ \E p \in KeyedPayloads : Deliver(p)
    \/ \E u \in Users, a \in AdjustAmounts, key \in ExtIds \cup {NoExt, EmptyKey} : AdminAdjust(u, a, key)

SpecExternalId == ExternalIdInit /\ [][ExternalIdNext]_vars

\* C33: in every reachable state no two ledger entries share the same non-null external
\* id, across entry types and users; repeating an admin adjustment with the same
\* idempotency key changes the target's posted balance only once, and a purchase or
\* adjustment whose external id is already used by any entry is a no-op.
C33_ExternalIdUnique ==
    /\ [](\A i, k \in 1..Len(ledger) :
            (i # k /\ ledger[i].external_id # NoExt) => ledger[i].external_id # ledger[k].external_id)
    /\ [][(resp'.op \in {"adjust", "webhook"} /\ resp'.ext # NoExt /\ ExtRows(ledger, resp'.ext) # {})
            => /\ ledger' = ledger
               /\ \A u \in Users : get_balances(ledger', u).posted_usd = get_balances(ledger, u).posted_usd]_vars

C33_Witness ==
    /\ resp.op = "adjust" /\ resp.code = 200 /\ resp.detail = "existing"
    /\ \E i \in ExtRows(ledger, resp.ext) : ledger[i].entry_type = "PURCHASE" /\ ledger[i].user_id # resp.user
    /\ \E i \in 1..Len(ledger) : ledger[i].entry_type = "ADJUSTMENT" /\ ledger[i].external_id \in ExtIds


(***************************************************************************)
(* Pushes apart from the writes before them: create_job commits the QUEUED *)
(* row, reserves and publishes before it pushes the id (main.py 244-263),  *)
(* the worker's retry commits QUEUED before it pushes (worker.py 246-251). *)
(* Other requests and workers run between the two; two workers share the   *)
(* queue.                                                                  *)
(***************************************************************************)
RetryCredit == 2 * InitialCredit
RetrySubmissions == {sub \in Submissions : ~sub.allowCache /\ sub.manifestHash = "h1"}
Pushing(r) == rq[r].pc = "push"

RetryInit ==
    /\ ledger = <<CreditLedger("u1", NoJob, "PURCHASE", "posted", RetryCredit, NoExt, "lemon")>>
    /\ call = NoCall
    /\ before = NoCall
    /\ rq = <<>>
    /\ settings = [lemon_webhook_secret |-> FALSE, lemon_auto_create_users |-> FALSE]
    /\ users = Users
    /\ resp = NoResp
    /\ jobs = <<>> /\ events = <<>> /\ channel = <<>> /\ runs = <<>>
    /\ queue = [g \in GpuClasses |-> <<>>]
    /\ cache = <<>> /\ usage = <<>>
    /\ wk = [w \in RacingWorkers |-> Idle]

\* main.py 227-262: the row is committed as QUEUED, the credits reserved, the event
\* written and the first message published; the request then stands before line 263
CreateCommit(u, sub) ==
    LET cost == estimate_cost(sub.manifest, sub.preset)
        j == Len(jobs) + 1
        row == Job(u, "QUEUED", sub, cost)
        r == reserve_credits(ledger, u, j, cost)
    IN  /\ Len(jobs) < MaxJobs
        /\ create_rejection(usage, u, sub) = ""
        /\ ledger' = r.ledger
        /\ runs' = Append(runs, 0)
        /\ IF r.outcome = "reserved"
           THEN /\ jobs' = Append(jobs, row)
                /\ events' = Append(events, "QUEUED")
                /\ channel' = Append(channel, [status |-> "QUEUED", progress |-> 0])
                /\ rq' = Append(rq, [pc |-> "push", job |-> j, gpu_class |-> row.gpu_class])
                /\ resp' = NoResp
           ELSE /\ jobs' = Append(jobs, [row EXCEPT !.status = "FAILED",
                                                    !.error_message = "Insufficient credits"])
                /\ events' = Append(events, "")
                /\ channel' = Append(channel, NoMessage)
                /\ rq' = Append(rq, [pc |-> "done", job |-> j, gpu_class |-> row.gpu_class])
                /\ resp' = Request("create", 400, "Insufficient credits", u, j, sub)
        /\ UNCHANGED <<call, before, settings, users, queue, cache, usage, wk>>

\* main.py 263-272: enqueue_job and the response
CreatePush(r) ==
    /\ Pushing(r)
    /\ queue' = enqueue_job(queue, rq[r].job, rq[r].gpu_class)
    /\ rq' = [rq EXCEPT ![r].pc = "done"]
    /\ resp' = [NoResp EXCEPT !.op = "create", !.code = 200, !.detail = "QUEUED",
                              !.user = jobs[rq[r].job].user_id, !.job = rq[r].job]
    /\ UNCHANGED <<ledgerVars, settings, users, jobs, events, channel, runs, cache, usage, wk>>

\* worker.py 241-250, 252-254: the RuntimeError handler up to its last commit: attempts
\* counted, then QUEUED at progress 10 with the push still to come, or FAILED and voided
RetryUpdate_forever(w) ==
    LET j == Holds(w)
    IN  /\ wk[w].pc \in {"download", "validate", "render", "timeout"}
        /\ Updated(j, update_job(jobs[j], "QUEUED", 10, ""))
        /\ ledger' = ledger
        /\ runs' = [runs EXCEPT ![j] = 0]
        /\ wk' = [wk EXCEPT ![w].pc = "requeue"]
        /\ resp' = NoResp
        /\ UNCHANGED <<call, before, rq, settings, users, queue, cache, usage>>
RetryUpdate(w) ==
    LET j == Holds(w)
        row == [jobs[j] EXCEPT !.attempts = @ + 1]
    IN  /\ wk[w].pc \in {"download", "validate", "render", "timeout"}
        /\ IF row.attempts < max_attempts
           THEN /\ Updated(j, update_job(row, "QUEUED", 10, ""))
                /\ ledger' = ledger
                /\ wk' = [wk EXCEPT ![w].pc = "requeue"]
           ELSE /\ Updated(j, update_job(row, "FAILED", -1, RuntimeErrorMessage(wk[w].pc)))
                /\ ledger' = void_reservation(ledger, j, "failed")
                /\ wk' = [wk EXCEPT ![w] = Idle]
        /\ resp' = NoResp
        /\ UNCHANGED <<call, before, rq, settings, users, queue, cache, usage, runs>>

\* worker.py 249-251: enqueue_job on the queue of the worker's GPU_CLASS; process_job
\* has its finally block still to run
RetryEnqueue(w) ==
    /\ wk[w].pc = "requeue"
    /\ queue' = enqueue_job(queue, Holds(w), WorkerGpu(w))
    /\ wk' = [wk EXCEPT ![w].pc = "finally"]
    /\ resp' = NoResp
    /\ UNCHANGED <<ledgerVars, rq, settings, users, jobs, events, channel, runs, cache, usage>>

\* worker.py 258-261: the finally block after a retry (session closed, the job's work
\* directory removed), then process_job returns to main's loop; on the other paths
\* nothing of the job is left to another process when the block runs
RetryFinally(w) ==
    /\ wk[w].pc = "finally"
    /\ wk' = [wk EXCEPT ![w] = Idle]
    /\ resp' = NoResp
    /\ UNCHANGED <<ledgerVars, rq, settings, users, jobs, events, channel, runs, queue, cache, usage>>

\* worker.py 264-271: one worker's loop, a step at a time
WorkerStep(w) ==
    \/ Dequeue(w)
    \/ Begin(w)
    \/ StageDone(w)
    \/ RenderDone(w)
    \/ RenderCancelled(w)
    \/ RenderTimeout(w)
    \/ RetryUpdate(w)
    \/ RetryEnqueue(w)
    \/ RetryFinally(w)
    \/ ExceptionRaised(w)
    \/ PackageDone(w)
    \/ \E minutes \in {1} : UploadDone(w, minutes)
    \/ SettleAndUsage(w)
    \/ CacheInsert(w, FALSE)

RetryNext ==
    \/ \E u \in Creators, sub \in RetrySubmissions : CreateCommit(u, sub)
    \/ \E r \in 1..Len(rq) : CreatePush(r)
    \/ \E u \in Creators, j \in 1..Len(jobs) : cancel_job(u, j)
    \/ \E w \in RacingWorkers : WorkerStep(w)

SpecRetry == RetryInit /\ [][RetryNext]_vars

\* C38: every job id is at most once in the queues, and an id in a queue is that of a
\* QUEUED job, also when a cancel lands between a status write and the push after it.
C38_QueuedOnceAndQueued ==
    \A j \in 1..Len(jobs) :
        /\ Cardinality({i \in 1..Len(queue[jobs[j].gpu_class]) : queue[jobs[j].gpu_class][i] = j}) <= 1
        /\ InQueues(queue, j) => jobs[j].status = "QUEUED"


\* C39: at any time at most one worker is processing a given job: no two executions of
\* process_job for the same job id overlap, with workers racing and jobs being retried.
C39_OneWorkerPerJob ==
    \A w \in RacingWorkers, v \in RacingWorkers :
        (w # v /\ wk[w].pc # "idle" /\ wk[v].pc # "idle") => Holds(w) # Holds(v)


\* worker.py 264-271: one worker serves the queue; main never leaves its loop, and each
\* step of process_job ends (downloads and uploads return or raise, the render ends or
\* hits its timeout)
FairInit ==
    /\ ledger = <<CreditLedger("u1", NoJob, "PURCHASE", "posted", RetryCredit, NoExt, "lemon")>>
    /\ call = NoCall
    /\ before = NoCall
    /\ rq = <<>>
    /\ settings = [lemon_webhook_secret |-> FALSE, lemon_auto_create_users |-> FALSE]
    /\ users = Users
    /\ resp = NoResp
    /\ jobs = <<>> /\ events = <<>> /\ channel = <<>> /\ runs = <<>>
    /\ queue = [g \in GpuClasses |-> <<>>]
    /\ cache = <<>> /\ usage = <<>>
    /\ wk = [w \in Workers |-> Idle]

FairNext ==
    \/ \E u \in Creators, sub \in RetrySubmissions : CreateCommit(u, sub)
    \/ \E r \in 1..Len(rq) : CreatePush(r)
    \/ \E u \in Creators, j \in 1..Len(jobs) : cancel_job(u, j)
    \/ \E w \in Workers : WorkerStep(w)

RetryFairness == \A w \in Workers : WF_vars(WorkerStep(w))

SpecRetryFair == FairInit /\ [][FairNext]_vars /\ RetryFairness

\* C34: every job that create pushed onto a queue eventually reaches one of COMPLETED,
\* FAILED or CANCELLED and stays there, given running workers and fair scheduling;
\* retries cannot keep a job cycling forever.
C34_Termination ==
    \A j \in 1..MaxJobs :
        [](InQueues(queue, j) => <>[](j <= Len(jobs) /\ jobs[j].status \in Terminal))

C34_Witness ==
    \E j \in 1..Len(jobs) :
        /\ jobs[j].status = "FAILED" /\ jobs[j].attempts = max_attempts
        /\ runs[j] = max_attempts
        /\ ~InQueues(queue, j)
        /\ \A w \in Workers : Holds(w) # j


(***************************************************************************)
(* create_job's cache-hit path a commit at a time (main.py 186-225), for   *)
(* requests running side by side. The cache holds the entry of job 1,      *)
(* completed and settled at its estimate before.                           *)
(***************************************************************************)
HitSubmission == [manifest |-> "m1", manifestHash |-> "h1", preset |-> "web", allowCache |-> TRUE]
HitOrigin ==
    [Job("u1", "COMPLETED", HitSubmission, estimate_cost("m1", "web")) EXCEPT
        !.result_key = 1, !.cost_final_usd = estimate_cost("m1", "web"),
        !.progress_percent = 100, !.started_at = TRUE, !.finished_at = TRUE]
HitCredit == InitialCredit + estimate_cost("m1", "web")

HitInit ==
    /\ ledger = <<CreditLedger("u1", NoJob, "PURCHASE", "posted", HitCredit, NoExt, "lemon"),
                  CreditLedger("u1", 1, "RESERVE", "posted", 0 - estimate_cost("m1", "web"), NoExt, "")>>
    /\ call = NoCall
    /\ before = NoCall
    /\ rq = <<>>
    /\ settings = [lemon_webhook_secret |-> FALSE, lemon_auto_create_users |-> FALSE]
    /\ users = Users
    /\ resp = NoResp
    /\ jobs = <<HitOrigin>> /\ events = <<"COMPLETED">> /\ channel = <<Message(HitOrigin)>>
    /\ runs = <<1>>
    /\ queue = [g \in GpuClasses |-> <<>>]
    /\ cache = <<[manifest_hash |-> "h1", preset |-> "web", result_key |-> 1]>>
    /\ usage = update_usage(<<>>, HitOrigin, 2)
    /\ wk = [w \in Workers |-> Idle]

\* main.py 160-207: checks passed, the cache row found, the COMPLETED job row committed
HitCommit(u, sub) ==
    LET hits == CacheRows(cache, sub.manifestHash, sub.preset)
        hit == cache[CHOOSE i \in hits : TRUE]
        cost == estimate_cost(sub.manifest, sub.preset)
        j == Len(jobs) + 1
        row == [Job(u, "COMPLETED", sub, cost) EXCEPT
                   !.result_key = hit.result_key, !.cost_final_usd = cost,
                   !.progress_percent = 100, !.cache_hit = TRUE,
                   !.started_at = TRUE, !.finished_at = TRUE]
    IN  /\ Len(jobs) < MaxJobs + 1
        /\ create_rejection(usage, u, sub) = ""
        /\ sub.allowCache
        /\ Cardinality(hits) = 1
        /\ jobs' = Append(jobs, row)
        /\ events' = Append(events, "")
        /\ runs' = Append(runs, 0)
        /\ channel' = Append(channel, NoMessage)
        /\ rq' = Append(rq, [pc |-> "reserve", job |-> j, user |-> u, cost |-> cost])
        /\ resp' = NoResp
        /\ UNCHANGED <<ledgerVars, settings, users, queue, cache, usage, wk>>

\* main.py 208-211: reserve_credits, and the 400 when it raises
HitReserve(r) ==
    LET res == reserve_credits(ledger, rq[r].user, rq[r].job, rq[r].cost)
    IN  /\ rq[r].pc = "reserve"
        /\ ledger' = res.ledger
        /\ IF res.outcome = "reserved"
           THEN /\ rq' = [rq EXCEPT ![r].pc = "settle"]
                /\ resp' = NoResp
           ELSE /\ rq' = [rq EXCEPT ![r].pc = "refused"]
                /\ resp' = [NoResp EXCEPT !.op = "create", !.code = 400, !.detail = "Insufficient credits",
                                          !.user = rq[r].user, !.job = rq[r].job]
        /\ UNCHANGED <<call, before, settings, users, jobs, events, channel, runs, queue, cache, usage, wk>>

\* main.py 212: settle_job_credits(db, job.id, cost)
HitSettle_skipped(r) ==
    /\ rq[r].pc = "settle"
    /\ rq' = [rq EXCEPT ![r].pc = "publish"]
    /\ resp' = NoResp
    /\ UNCHANGED <<ledgerVars, settings, users, jobs, events, channel, runs, queue, cache, usage, wk>>
HitSettle(r) ==
    /\ rq[r].pc = "settle"
    /\ ledger' = settle_job_credits(ledger, rq[r].job, rq[r].cost)
    /\ rq' = [rq EXCEPT ![r].pc = "publish"]
    /\ resp' = NoResp
    /\ UNCHANGED <<call, before, settings, users, jobs, events, channel, runs, queue, cache, usage, wk>>

\* main.py 213-225: publish_progress with the request's own view of the row, and the response
HitPublish(r) ==
    /\ rq[r].pc = "publish"
    /\ channel' = [channel EXCEPT ![rq[r].job] = [status |-> "COMPLETED", progress |-> 100]]
    /\ rq' = [rq EXCEPT ![r].pc = "done"]
    /\ resp' = [NoResp EXCEPT !.op = "create", !.code = 200, !.detail = "COMPLETED",
                              !.user = rq[r].user, !.job = rq[r].job]
    /\ UNCHANGED <<ledgerVars, settings, users, jobs, events, runs, queue, cache, usage, wk>>

HitNext ==
    \/ \E u \in Creators : HitCommit(u, HitSubmission)
    \/ \E r \in 1..Len(rq) : HitReserve(r)
    \/ \E r \in 1..Len(rq) : HitSettle(r)
    \/ \E r \in 1..Len(rq) : HitPublish(r)
    \/ \E u \in Users, j \in 1..Len(jobs) : cancel_job(u, j)

SpecCacheHit == HitInit /\ [][HitNext]_vars

JobRows(L, j, type) == {i \in 1..Len(L) : L[i].job_id = j /\ L[i].entry_type = type}

Settled(j) == \A w \in Workers : Holds(w) # j

\* C36: once a job is terminal and the operation that put it there has finished, its
\* RESERVE row is no longer reserved: posted for a COMPLETED job, voided or absent for a
\* FAILED or CANCELLED job; no terminal job keeps funds earmarked.
C36_TerminalReleased ==
    \A j \in 1..Len(jobs) :
        (jobs[j].status \in Terminal /\ Settled(j)) =>
            /\ \A i \in JobRows(ledger, j, "RESERVE") : ledger[i].status # "reserved"
            /\ jobs[j].status = "COMPLETED" =>
                   \E i \in JobRows(ledger, j, "RESERVE") : ledger[i].status = "posted"
            /\ jobs[j].status \in {"FAILED", "CANCELLED"} =>
                   \A i \in JobRows(ledger, j, "RESERVE") : ledger[i].status = "voided"

\* C37: every COMPLETED job, once the completing operation has finished, has a posted
\* RESERVE row, i.e. was charged: neither a cancel racing with the dequeue of a QUEUED job
\* nor a cache-hit create whose reservation fails yields a COMPLETED job with a voided or
\* missing reservation.
C37_CompletedCharged ==
    \A j \in 1..Len(jobs) :
        (jobs[j].status = "COMPLETED" /\ Settled(j)) =>
            \E i \in JobRows(ledger, j, "RESERVE") : ledger[i].status = "posted"


\* C40: every CacheEntry points at the result key of a job whose status is COMPLETED: a
\* failure in a worker step after the cache insert (such as the notification email) never
\* leaves a cache entry whose originating job is FAILED or QUEUED.
C40_CacheOfCompleted ==
    \A i \in 1..Len(cache) : jobs[cache[i].result_key].status = "COMPLETED"

=============================================================================
